---- MODULE Spec2Model ----
(***************************************************************************)
(* Session admission and entitlement control plane of the IPTV backend.    *)
(*                                                                         *)
(*   src/core/database.py  IPTVDatabase, DatabaseManager, get_db           *)
(*   src/core/server.py    XtreamCodesServer                               *)
(*                                                                         *)
(* The persistent store (one SQLite file) is modelled by the variables     *)
(* users, sessions, statistics, logs, streams, categories and usersXtream  *)
(* (the server's categories_xtream is never written after setup and is a   *)
(* definition); everything else is in-memory state of one process: the     *)
(* DatabaseManager class attribute, the IPTVDatabase objects with their    *)
(* locks, the connection a failed call left open, and the position of      *)
(* every request thread.                                                   *)
(*                                                                         *)
(* Time is the wall clock in days.  It advances in steps of TickDays (one   *)
(* day more than the 30 days the code uses for the demo expiry and the      *)
(* default cleanup age), so two calls made between two ticks read the same  *)
(* datetime.now() and the same CURRENT_TIMESTAMP.                           *)
(***************************************************************************)
EXTENDS Integers, Sequences, FiniteSets, TLC

VARIABLES
    now,         \* the clock, in days
    instance,    \* DatabaseManager._instance: 0 (None) or the manager made by thread instance
    mgrDb,       \* mgrDb[m]: attribute .db of manager m: 0 (not set) or an IPTVDatabase
    built,       \* the IPTVDatabase objects constructed so far (named by their constructing thread)
    lock,        \* lock[i]: holder of IPTVDatabase i's self.lock, 0 when free
    pc,          \* pc[t]: position of thread t
    db,          \* db[t]: the IPTVDatabase thread t got from get_db(), 0 when none
    fr,          \* fr[t]: locals of the call thread t is in
    ret,         \* ret[t]: what the call thread t just finished returned or raised (pc[t] = "done")
    users,       \* table users, row id = index
    sessions,    \* table active_sessions, a set of rows keyed by session_id
    statistics,  \* table statistics, stat_id = index
    statCalls,   \* history: the add_statistic calls that returned, in order
    logs,        \* table logs, log_id order
    streams,     \* table live_streams, stream_id = index
    categories,  \* table categories, category_id = index
    leaked,      \* a connection a failed call left open holds the store's write lock
    usersXtream, \* table users_xtream of the protocol server
    srv          \* the protocol server's request in progress and its last response

vars == <<now, instance, mgrDb, built, lock, pc, db, fr, ret,
          users, sessions, statistics, statCalls, logs, streams, categories,
          leaked, usersXtream, srv>>

memVars   == <<instance, mgrDb, built, lock, pc, db, fr, ret, leaked>>
storeVars == <<users, sessions, statistics, statCalls, logs>>

-----------------------------------------------------------------------------
(* Bounds of the model *)

NumThreads  == 2     \* request threads of the process
MaxTicks    == 1     \* clock ticks
MaxSessions == 2     \* rows of active_sessions
MaxBytes    == 1     \* largest bytes_sent kept by the model
MaxLogs     == 1     \* rows of logs
MaxStatCalls == 3    \* add_statistic calls
MaxStreams  == 3     \* rows of live_streams
MaxUsers    == 3     \* rows of users
MaxCategories == 8   \* rows of categories

(* Program constants *)

AdminMaxConnections   == 10   \* add_default_data: admin is inserted with max_connections 10
DefaultMaxConnections == 1    \* users.max_connections INTEGER DEFAULT 1
DemoExpiryDays        == 30   \* add_default_data: demo expires now + 30 days
CleanupDefaultDays    == 30   \* cleanup_old_data(days = 30)

Threads  == 1..NumThreads
TickDays == DemoExpiryDays + 1
NullTs   == -1                \* SQL NULL in a timestamp column
NoSid    == <<>>

-----------------------------------------------------------------------------
(* Hashing.  hashlib.sha256(p).hexdigest() and hashlib.md5(p).hexdigest()  *)
(* are modelled as injective, algorithm-tagged images of the password, so  *)
(* a stored hash is never equal to a password or to the other algorithm's  *)
(* hash of it.                                                             *)

Sha256(p) == <<"sha256", p>>
Md5(p)    == <<"md5", p>>

(* add_default_data: the rows INSERT OR IGNORE leaves in an empty users table *)
DefaultUsers(t0) ==
    << [username |-> "admin", password |-> Sha256("admin123"), is_active |-> 1,
        max_connections |-> AdminMaxConnections, expires_at |-> NullTs,
        last_login |-> NullTs, total_streams |-> 0, api_key |-> <<"NoneType">>],
       [username |-> "demo", password |-> Sha256("demo123"), is_active |-> 1,
        max_connections |-> DefaultMaxConnections, expires_at |-> t0 + DemoExpiryDays,
        last_login |-> NullTs, total_streams |-> 0, api_key |-> <<"NoneType">>] >>

(* init_database on the store: CREATE TABLE IF NOT EXISTS and INSERT OR     *)
(* IGNORE change nothing when the rows are there (username is UNIQUE).      *)
InitDatabase(us, t0) ==
    IF \E i \in 1..Len(us) : us[i].username = "admin" THEN us ELSE DefaultUsers(t0)

(* add_default_data: default_categories, inserted with category_name,       *)
(* parent_id, category_type and sort_order; user_id is left NULL (0 here)   *)
(* and is_active takes its default 1.  The model keeps the first two of the *)
(* eight rows, 'general' and 'sports' of type live; the other six are       *)
(* inserted by the same statement.                                          *)
DefaultCategories ==
    << [category_name |-> <<"general">>, parent_id |-> 0, category_type |-> "live",
        sort_order |-> 1, user_id |-> 0, is_active |-> 1],
       [category_name |-> <<"sports">>, parent_id |-> 0, category_type |-> "live",
        sort_order |-> 2, user_id |-> 0, is_active |-> 1] >>

(* UNIQUE(category_name, category_type, user_id): the rows a new row        *)
(* conflicts with.  SQL compares NULL with nothing, so a row whose user_id  *)
(* is NULL conflicts with no row.                                           *)
CategoryConflict(cs, row) ==
    \E i \in 1..Len(cs) : /\ cs[i].category_name = row.category_name
                          /\ cs[i].category_type = row.category_type
                          /\ row.user_id # 0
                          /\ cs[i].user_id = row.user_id

RECURSIVE InsertOrIgnoreCategories(_, _)
(* for ... in default_categories: INSERT OR IGNORE INTO categories *)
InsertOrIgnoreCategories(cs, rows) ==
    IF rows = <<>> THEN cs
    ELSE InsertOrIgnoreCategories(
             IF CategoryConflict(cs, Head(rows)) THEN cs ELSE Append(cs, Head(rows)),
             Tail(rows))

UserIds == 1..Len(users)

NoStat  == [stat_date |-> 0, user_id |-> 0, stream_id |-> 0,
            bytes_sent |-> 0, viewers |-> 0, existing |-> 0]
NoFrame == [op |-> "", u |-> 0, ac |-> 0, mc |-> 0, sid |-> NoSid,
            username |-> "", password |-> "", stat |-> NoStat,
            lastrowid |-> 0, fmt |-> "", rows |-> <<>>,
            bytes_sent |-> 0, cutoff |-> 0, category_type |-> "", category_id |-> 0]
NoRet   == [kind |-> "", val |-> <<>>]
Ret(k, v) == [kind |-> k, val |-> v]

(* The server's add_default_data: the row INSERT OR IGNORE leaves in an     *)
(* empty users_xtream                                                       *)
DefaultXtreamUsers ==
    << [username |-> "demo", password |-> Md5("demo"), is_active |-> 1,
        max_connections |-> DefaultMaxConnections, created_at |-> 0,
        expires_at |-> NullTs] >>

NoResponse == [kind |-> "none"]
IdleSrv == [pc |-> "idle", username |-> "", password |-> "", action |-> "",
            user |-> 0, response |-> NoResponse]

Init ==
    /\ now = 0
    /\ instance = 0
    /\ mgrDb = [m \in Threads |-> 0]
    /\ built = {}
    /\ lock = [i \in Threads |-> 0]
    /\ pc = [t \in Threads |-> "start"]
    /\ db = [t \in Threads |-> 0]
    /\ fr = [t \in Threads |-> NoFrame]
    /\ ret = [t \in Threads |-> NoRet]
    /\ users = <<>>
    /\ sessions = {}
    /\ statistics = <<>>
    /\ statCalls = <<>>
    /\ logs = <<>>
    /\ streams = <<>>
    /\ categories = <<>>
    /\ leaked = FALSE
    /\ usersXtream = DefaultXtreamUsers
    /\ srv = IdleSrv

-----------------------------------------------------------------------------
(* The clock *)

Tick ==
    /\ now < MaxTicks * TickDays
    /\ now' = now + TickDays
    /\ UNCHANGED <<memVars, storeVars, srv, streams, categories, usersXtream>>

(* The process is started again on the database file it left behind: the   *)
(* module is loaded anew (_instance = None) and no object, lock or thread   *)
(* of the old process survives; the store does.  The model starts a        *)
(* process only while the categories table has room for the rows its       *)
(* constructions insert.                                                   *)
Restart ==
    /\ \E t \in Threads : pc[t] # "start"
    /\ Len(categories) + NumThreads * Len(DefaultCategories) <= MaxCategories
    /\ leaked' = FALSE
    /\ instance' = 0
    /\ mgrDb' = [m \in Threads |-> 0]
    /\ built' = {}
    /\ lock' = [i \in Threads |-> 0]
    /\ pc' = [t \in Threads |-> "start"]
    /\ db' = [t \in Threads |-> 0]
    /\ fr' = [t \in Threads |-> NoFrame]
    /\ ret' = [t \in Threads |-> NoRet]
    /\ UNCHANGED <<now, storeVars, srv, streams, categories, usersXtream>>

-----------------------------------------------------------------------------
(* get_db() = DatabaseManager().instance                                    *)

(* __new__: if cls._instance is None *)
GetDbTest(t) ==
    /\ pc[t] = "start"
    /\ pc' = [pc EXCEPT ![t] = IF instance = 0 THEN "gd_new" ELSE "gd_ret"]
    /\ UNCHANGED <<now, instance, mgrDb, built, lock, db, fr, ret, storeVars, srv, streams, categories, leaked, usersXtream>>

(* __new__: cls._instance = super().__new__(cls) *)
GetDbNew(t) ==
    /\ pc[t] = "gd_new"
    /\ instance' = t
    /\ mgrDb' = [mgrDb EXCEPT ![t] = 0]
    /\ pc' = [pc EXCEPT ![t] = "gd_build"]
    /\ UNCHANGED <<now, built, lock, db, fr, ret, storeVars, srv, streams, categories, leaked, usersXtream>>

(* __new__: IPTVDatabase() -- __init__ makes a new lock and runs           *)
(* init_database, which inserts the default rows.  While the store's write *)
(* lock is held the INSERT raises OperationalError out of the constructor: *)
(* the caller has no database and calls get_db() again.                    *)
GetDbBuild(t) ==
    /\ pc[t] = "gd_build"
    /\ IF leaked
       THEN /\ pc' = [pc EXCEPT ![t] = "start"]
            /\ UNCHANGED <<built, lock, users, categories>>
       ELSE /\ built' = built \cup {t}
            /\ lock' = [lock EXCEPT ![t] = 0]
            /\ users' = InitDatabase(users, now)
            /\ categories' = InsertOrIgnoreCategories(categories, DefaultCategories)
            /\ pc' = [pc EXCEPT ![t] = "gd_set"]
    /\ UNCHANGED <<now, instance, mgrDb, db, fr, ret, sessions, statistics, statCalls, logs, srv, streams, leaked, usersXtream>>

(* __new__: cls._instance.db = <the new IPTVDatabase>, on the manager the class holds now *)
GetDbSet(t) ==
    /\ pc[t] = "gd_set"
    /\ mgrDb' = [mgrDb EXCEPT ![instance] = t]
    /\ pc' = [pc EXCEPT ![t] = "gd_ret"]
    /\ UNCHANGED <<now, instance, built, lock, db, fr, ret, storeVars, srv, streams, categories, leaked, usersXtream>>

(* return cls._instance, then the property instance: self._instance.db.    *)
(* A manager whose .db is not set yet raises AttributeError: the caller has *)
(* no database and calls get_db() again.                                    *)
GetDbReturn(t) ==
    /\ pc[t] = "gd_ret"
    /\ IF mgrDb[instance] = 0
       THEN /\ pc' = [pc EXCEPT ![t] = "start"]
            /\ db' = db
       ELSE /\ db' = [db EXCEPT ![t] = mgrDb[instance]]
            /\ pc' = [pc EXCEPT ![t] = "idle"]
    /\ UNCHANGED <<now, instance, mgrDb, built, lock, fr, ret, storeVars, srv, streams, categories, leaked, usersXtream>>

-----------------------------------------------------------------------------
(* Sessions: table active_sessions                                          *)

ClientIps  == {"10.0.0.1"}
ByteDeltas == {0, 1}
CleanupDays == {CleanupDefaultDays, 0}

(* session_id = sha256(f"{user_id}{datetime.now()}{client_ip}")[:32]: a     *)
(* function of exactly these three values, taken as injective in them.      *)
SessionId(u, t, ip) == <<u, t, ip>>

(* The row INSERT INTO active_sessions (session_id, user_id, stream_id,     *)
(* client_ip, user_agent) makes; the other columns take their defaults.     *)
NewSession(sid, u, ip, t) ==
    [session_id |-> sid, user_id |-> u, client_ip |-> ip, start_time |-> t,
     last_active |-> t, is_active |-> 1, bytes_sent |-> 0]

SessionIds(ss) == {s.session_id : s \in ss}

MutInsertSession(ss, row) ==
    {s \in ss : s.session_id # row.session_id} \cup {row}

(* INSERT with session_id TEXT PRIMARY KEY: a second row with the key is    *)
(* refused (IntegrityError) and the table is left as it was.                *)
InsertSession(ss, row) ==
    IF row.session_id \in SessionIds(ss) THEN ss ELSE ss \cup {row}

(* SELECT COUNT( * ) FROM active_sessions WHERE user_id = ? AND is_active = 1 *)
ActiveConnections(ss, u) ==
    Cardinality({s \in ss : s.user_id = u /\ s.is_active = 1})

(* c.fetchone()[0] or 1 *)
MaxConnections(us, u) ==
    IF us[u].max_connections = 0 THEN 1 ELSE us[u].max_connections

MutUpdateSessionRowsAny(ss, sid, b, t) ==
    {IF s.session_id = sid
     THEN [s EXCEPT !.last_active = t, !.bytes_sent = s.bytes_sent + b]
     ELSE s : s \in ss}

MutUpdateSessionRows(ss, sid, b, t) ==
    {IF s.session_id = sid
     THEN [s EXCEPT !.last_active = t, !.bytes_sent = s.bytes_sent + b, !.is_active = 1]
     ELSE s : s \in ss}

(* UPDATE active_sessions SET last_active = CURRENT_TIMESTAMP,               *)
(*   bytes_sent = bytes_sent + ? WHERE session_id = ? AND is_active = 1      *)
UpdateSessionRows(ss, sid, b, t) ==
    {IF s.session_id = sid /\ s.is_active = 1
     THEN [s EXCEPT !.last_active = t, !.bytes_sent = s.bytes_sent + b]
     ELSE s : s \in ss}

MutCleanupSessionsDelete(ss, cutoff) == {s \in ss : ~(s.last_active < cutoff)}

MutCleanupSessionsAll(ss, cutoff) == {[s EXCEPT !.is_active = 0] : s \in ss}

(* UPDATE active_sessions SET is_active = 0 WHERE last_active < ? *)
CleanupSessions(ss, cutoff) ==
    {IF s.last_active < cutoff THEN [s EXCEPT !.is_active = 0] ELSE s : s \in ss}

(* DELETE FROM logs WHERE log_date < ? AND log_level != 'error'; every row   *)
(* log_action writes has the default level 'info'.                           *)
CleanupLogs(lg, cutoff) ==
    SelectSeq(lg, LAMBDA r : ~(r.log_date < cutoff))

(* INSERT INTO logs (user_id, action, details) *)
LogInsert(lg, u, action, t) ==
    Append(lg, [user_id |-> u, action |-> action, log_date |-> t])

Ready(t) == pc[t] = "idle" /\ db[t] # 0 /\ lock[db[t]] = 0

(* A statement that writes while another connection holds the store's write *)
(* lock: sqlite3 waits for its timeout and raises OperationalError          *)
(* ("database is locked"); the exception leaves the with block, which       *)
(* releases self.lock, and nothing is written.                              *)
RaiseLocked(t, op) ==
    /\ ret' = [ret EXCEPT ![t] = Ret("OperationalError", <<>>)]
    /\ pc' = [pc EXCEPT ![t] = "done"]
    /\ fr' = [fr EXCEPT ![t] = [NoFrame EXCEPT !.op = op]]
    /\ lock' = [lock EXCEPT ![db[t]] = 0]
    /\ UNCHANGED <<users, sessions, statistics, statCalls, logs, streams,
                   categories, leaked>>

(* The garbage collector frees the connection a failed call left open;      *)
(* closing it rolls its transaction back and gives up the write lock.       *)
Collect ==
    /\ leaked
    /\ leaked' = FALSE
    /\ UNCHANGED <<now, instance, mgrDb, built, lock, pc, db, fr, ret,
                   storeVars, srv, streams, categories, usersXtream>>

(* check_user_connections(user_id): one critical section, two SELECTs.       *)
(* A user_id with no row makes fetchone() None and None[0] a TypeError; the  *)
(* with statement releases the lock.                                         *)
CheckUserConnections(t) ==
    /\ Ready(t)
    /\ \E u \in UserIds \cup {Len(users) + 1} :
          IF u \in UserIds
          THEN /\ fr' = [fr EXCEPT ![t] = [NoFrame EXCEPT !.op = "admit", !.u = u,
                              !.ac = ActiveConnections(sessions, u),
                              !.mc = MaxConnections(users, u)]]
               /\ pc' = [pc EXCEPT ![t] = "checked"]
               /\ ret' = ret
          ELSE /\ ret' = [ret EXCEPT ![t] = Ret("TypeError", <<>>)]
               /\ pc' = [pc EXCEPT ![t] = "done"]
               /\ fr' = fr
    /\ UNCHANGED <<now, instance, mgrDb, built, lock, db, storeVars, srv, streams, categories, leaked, usersXtream>>

(* The caller's comparison of the pair check_user_connections returned:      *)
(* at or above the cap the admission is refused and nothing is written.      *)
AdmitRefuse(t) ==
    /\ pc[t] = "checked"
    /\ ~(fr[t].ac < fr[t].mc)
    /\ ret' = [ret EXCEPT ![t] = Ret("CapacityExceeded", <<>>)]
    /\ pc' = [pc EXCEPT ![t] = "done"]
    /\ fr' = [fr EXCEPT ![t] = NoFrame]
    /\ UNCHANGED <<now, instance, mgrDb, built, lock, db, storeVars, srv, streams, categories, leaked, usersXtream>>

(* create_session(user_id, client_ip=ip), called when the count read was     *)
(* under the cap.  Takes self.lock, inserts and commits, then calls          *)
(* self.log_action while still inside the with block.  A refused INSERT      *)
(* raises before conn.close(): the connection stays open inside the write    *)
(* transaction the INSERT began.                                             *)
CreateSession(t) ==
    /\ pc[t] = "checked"
    /\ fr[t].ac < fr[t].mc
    /\ lock[db[t]] = 0
    /\ Cardinality(sessions) < MaxSessions
    /\ \E ip \in ClientIps :
          LET sid == SessionId(fr[t].u, now, ip) IN
          IF leaked THEN RaiseLocked(t, "create_session")
          ELSE
          /\ sessions' = InsertSession(sessions, NewSession(sid, fr[t].u, ip, now))
          /\ IF sid \in SessionIds(sessions)
             THEN /\ ret' = [ret EXCEPT ![t] = Ret("IntegrityError", <<>>)]
                  /\ pc' = [pc EXCEPT ![t] = "done"]
                  /\ fr' = [fr EXCEPT ![t] = NoFrame]
                  /\ lock' = lock
                  /\ leaked' = TRUE
             ELSE /\ lock' = [lock EXCEPT ![db[t]] = t]
                  /\ pc' = [pc EXCEPT ![t] = "log_wait"]
                  /\ fr' = [fr EXCEPT ![t] = [NoFrame EXCEPT !.op = "create_session",
                                                !.u = fr[t].u, !.sid = sid]]
                  /\ ret' = ret
                  /\ leaked' = leaked
    /\ UNCHANGED <<now, instance, mgrDb, built, db, users, statistics, statCalls, logs, srv, streams, categories, usersXtream>>

(* update_session(session_id, bytes_sent) *)
UpdateSession(t) ==
    /\ Ready(t)
    /\ \E sid \in SessionIds(sessions) \cup {SessionId(0, 0, "10.0.0.1")}, b \in ByteDeltas :
          /\ \A s \in sessions : s.session_id = sid /\ s.is_active = 1
                                   => s.bytes_sent + b <= MaxBytes
          /\ IF leaked THEN RaiseLocked(t, "update_session")
             ELSE /\ sessions' = UpdateSessionRows(sessions, sid, b, now)
                  /\ fr' = [fr EXCEPT ![t] = [NoFrame EXCEPT !.op = "update_session",
                                                !.sid = sid, !.bytes_sent = b]]
                  /\ ret' = [ret EXCEPT ![t] = Ret("None", <<>>)]
                  /\ pc' = [pc EXCEPT ![t] = "done"]
    /\ UNCHANGED <<now, instance, mgrDb, built, lock, db,
                   users, statistics, statCalls, logs, srv, streams, categories, leaked, usersXtream>>

(* cleanup_old_data(days): both statements and the commit, then              *)
(* self.log_action inside the with block.                                    *)
CleanupOldData(t) ==
    /\ Ready(t)
    /\ \E days \in CleanupDays :
          IF leaked THEN RaiseLocked(t, "cleanup_old_data")
          ELSE /\ sessions' = CleanupSessions(sessions, now - days)
               /\ logs' = CleanupLogs(logs, now - days)
               /\ lock' = [lock EXCEPT ![db[t]] = t]
               /\ pc' = [pc EXCEPT ![t] = "log_wait"]
               /\ fr' = [fr EXCEPT ![t] = [NoFrame EXCEPT !.op = "cleanup_old_data",
                                             !.cutoff = now - days]]
               /\ ret' = ret
    /\ UNCHANGED <<now, instance, mgrDb, built, db, users, statistics, statCalls, srv, streams, categories, leaked, usersXtream>>

(* What the call that is waiting in log_action returns once log_action is back *)
PendingRet(f) ==
    IF f.op = "create_session" THEN Ret("session_id", f.sid)
    ELSE IF f.op = "authenticate_user" THEN Ret("user", <<f.u>>)
    ELSE IF f.op = "add_live_stream" THEN Ret("stream_id", <<f.lastrowid>>)
    ELSE IF f.op = "create_user" THEN Ret("user_id", <<f.lastrowid>>)
    ELSE IF f.op = "add_category" THEN Ret("category_id", <<f.lastrowid>>)
    ELSE Ret("None", <<>>)

(* log_action(user_id, action, details): with self.lock: INSERT INTO logs.   *)
(* Called by a client (pc idle), or from inside create_session,              *)
(* authenticate_user and cleanup_old_data (pc log_wait), whose with block    *)
(* ends when log_action returns.  threading.Lock is not reentrant.           *)
LogAction(t) ==
    /\ pc[t] \in {"idle", "log_wait"}
    /\ db[t] # 0
    /\ lock[db[t]] = 0
    /\ Len(logs) < MaxLogs
    /\ IF leaked THEN RaiseLocked(t, "log_action")
       ELSE /\ logs' = LogInsert(logs, IF pc[t] = "idle" THEN 0 ELSE fr[t].u,
                                 IF pc[t] = "idle" THEN "note" ELSE fr[t].op, now)
            /\ ret' = [ret EXCEPT ![t] = IF pc[t] = "idle" THEN Ret("None", <<>>)
                                          ELSE PendingRet(fr[t])]
            /\ pc' = [pc EXCEPT ![t] = "done"]
            /\ fr' = [fr EXCEPT ![t] = NoFrame]
            /\ lock' = lock
    /\ UNCHANGED <<now, instance, mgrDb, built, db,
                   users, sessions, statistics, statCalls, srv, streams, categories, leaked, usersXtream>>

(* The caller has its result and is free to make its next call *)
Resume(t) ==
    /\ pc[t] = "done"
    /\ pc' = [pc EXCEPT ![t] = "idle"]
    /\ ret' = [ret EXCEPT ![t] = NoRet]
    /\ fr' = [fr EXCEPT ![t] = NoFrame]
    /\ UNCHANGED <<now, instance, mgrDb, built, lock, db, storeVars, srv, streams, categories, leaked, usersXtream>>

-----------------------------------------------------------------------------
(* Authentication against table users                                       *)

Usernames == {"demo", "nouser"}
Passwords == {"demo123", "wrong"}

MutAuthSelect(us, un, pw) ==
    LET m == {i \in 1..Len(us) : /\ us[i].username = un
                                  /\ us[i].password = Sha256(pw)}
    IN IF m = {} THEN 0 ELSE CHOOSE i \in m : TRUE

MutAuthSelectAnyPassword(us, un, pw) ==
    LET m == {i \in 1..Len(us) : us[i].username = un /\ us[i].is_active = 1}
    IN IF m = {} THEN 0 ELSE CHOOSE i \in m : TRUE

(* SELECT * FROM users WHERE username = ? AND password = ? AND is_active = 1 *)
(* with the password hashed; 0 when fetchone() is None.  username is UNIQUE. *)
AuthSelect(us, un, pw) ==
    LET m == {i \in 1..Len(us) : /\ us[i].username = un
                                  /\ us[i].password = Sha256(pw)
                                  /\ us[i].is_active = 1}
    IN IF m = {} THEN 0 ELSE CHOOSE i \in m : TRUE

(* UPDATE users SET last_login = CURRENT_TIMESTAMP WHERE id = ? *)
TouchLogin(us, u, t) == [us EXCEPT ![u].last_login = t]

(* authenticate_user(username, password): takes self.lock and runs the SELECT *)
AuthenticateUser(t) ==
    /\ Ready(t)
    /\ \E un \in Usernames, pw \in Passwords :
          fr' = [fr EXCEPT ![t] = [NoFrame EXCEPT !.op = "authenticate_user",
                                     !.username = un, !.password = pw,
                                     !.u = AuthSelect(users, un, pw)]]
    /\ lock' = [lock EXCEPT ![db[t]] = t]
    /\ pc' = [pc EXCEPT ![t] = "auth_sel"]
    /\ UNCHANGED <<now, instance, mgrDb, built, db, ret, storeVars, srv, streams, categories, leaked, usersXtream>>

(* authenticate_user after the SELECT.  A row: UPDATE last_login, commit and *)
(* self.log_action inside the with block.  No row: close, leave the with     *)
(* block and return None.                                                    *)
AuthFinish(t) ==
    /\ pc[t] = "auth_sel"
    /\ IF fr[t].u # 0
       THEN IF leaked THEN RaiseLocked(t, "authenticate_user")
            ELSE /\ users' = TouchLogin(users, fr[t].u, now)
                 /\ pc' = [pc EXCEPT ![t] = "log_wait"]
                 /\ UNCHANGED <<lock, ret, fr>>
       ELSE /\ lock' = [lock EXCEPT ![db[t]] = 0]
            /\ ret' = [ret EXCEPT ![t] = Ret("None", <<>>)]
            /\ pc' = [pc EXCEPT ![t] = "done"]
            /\ UNCHANGED <<users, fr>>
    /\ UNCHANGED <<now, instance, mgrDb, built, db,
                   sessions, statistics, statCalls, logs, srv, streams, categories, leaked, usersXtream>>

-----------------------------------------------------------------------------
(* The protocol server, XtreamCodesServer.  It opens its own connections to *)
(* the same file and takes no lock.  Its tables are filled by               *)
(* setup_database and read, never written, by the request handlers.         *)

(* The rows of users_xtream: (id, username, password, is_active,            *)
(* max_connections, created_at, expires_at, total_streams)                  *)
XtreamUsers == usersXtream

(* categories_xtream after add_default_data: (category_id, name, parent_id) *)
XtreamCategories ==
    << <<1, "Live TV", 0>>, <<2, "Movies", 0>>, <<3, "Series", 0>>,
       <<4, "Sports", 1>>, <<5, "News", 1>>, <<6, "Kids", 1>> >>

SrvUsernames == {"demo", "nouser"}
SrvPasswords == {"demo", "wrong"}
SrvActions   == {"", "get_live_categories", "get_live_streams",
                 "get_vod_categories", "get_vod_streams", "get_series"}

(* SELECT * FROM users_xtream WHERE username=? AND password=? AND is_active=1 *)
XtreamAuthSelect(un, pw) ==
    LET m == {i \in 1..Len(XtreamUsers) : /\ XtreamUsers[i].username = un
                                           /\ XtreamUsers[i].password = Md5(pw)
                                           /\ XtreamUsers[i].is_active = 1}
    IN IF m = {} THEN 0 ELSE CHOOSE i \in m : TRUE

(* json.dumps({"user_info": {"auth": 0}}): responses are kept as the values  *)
(* json.dumps encodes; the encoding is injective on them.                    *)
NegEnvelope == [user_info |-> [auth |-> 0]]

(* "password": "********" in both user-info records.  The text fields of a  *)
(* user-info record are kept as sequences of pieces, as the hashes are.     *)
MaskedPassword == <<"********">>

(* get_user_info(username): SELECT * FROM users_xtream WHERE username=? *)
SrvUserInfo(un) ==
    LET m == {i \in 1..Len(XtreamUsers) : XtreamUsers[i].username = un} IN
    IF m = {} THEN NegEnvelope
    ELSE LET r == XtreamUsers[CHOOSE i \in m : TRUE] IN
         [user_info |->
            [username |-> <<r.username>>, password |-> MaskedPassword,
             message |-> <<"Authorized">>, auth |-> 1, status |-> <<"Active">>,
             exp_date |-> IF r.expires_at = NullTs THEN <<"2099-12-31">>
                          ELSE <<ToString(r.expires_at)>>,
             is_trial |-> 0, active_cons |-> 0, created_at |-> <<ToString(r.created_at)>>,
             max_connections |-> r.max_connections,
             allowed_output_formats |-> <<"m3u8", "ts", "rtmp">>]]

(* get_live_categories(): SELECT ... FROM categories_xtream WHERE parent_id=1 *)
SrvLiveCategories ==
    [categories |->
        [i \in 1..Len(SelectSeq(XtreamCategories, LAMBDA c : c[3] = 1)) |->
            LET c == SelectSeq(XtreamCategories, LAMBDA x : x[3] = 1)[i] IN
            [category_id |-> c[1], category_name |-> c[2], parent_id |-> 1]]]

(* The branch of handle_api_request taken for an action.  get_live_streams, *)
(* get_vod_categories and get_vod_streams are not methods of the class: the *)
(* call raises AttributeError, which handle_request turns into the text     *)
(* "Error: ...".                                                            *)
SrvActionResponse(action, un) ==
    IF action = "get_live_categories" THEN SrvLiveCategories
    ELSE IF action \in {"get_live_streams", "get_vod_categories", "get_vod_streams"}
         THEN [error |-> "AttributeError"]
    ELSE SrvUserInfo(un)

(* handle_api_request: the query string is parsed and authenticate_user has *)
(* opened its connection.                                                   *)
SrvReceive ==
    /\ srv.pc = "idle"
    /\ \E un \in SrvUsernames, pw \in SrvPasswords, a \in SrvActions :
          srv' = [pc |-> "auth", username |-> un, password |-> pw, action |-> a,
                  user |-> 0, response |-> NoResponse]
    /\ UNCHANGED <<now, memVars, storeVars, streams, categories, usersXtream>>

MutSrvAuthenticateOpen ==
    /\ srv.pc = "auth"
    /\ srv' = [srv EXCEPT !.pc = "dispatch",
                          !.user = XtreamAuthSelect(srv.username, srv.password)]
    /\ UNCHANGED <<now, memVars, storeVars, streams, categories, usersXtream>>

MutSrvAuthenticateLeak ==
    /\ srv.pc = "auth"
    /\ LET u == XtreamAuthSelect(srv.username, srv.password) IN
       IF u = 0
       THEN srv' = [srv EXCEPT !.pc = "idle",
                      !.response = IF \E i \in 1..Len(XtreamUsers) :
                                          XtreamUsers[i].username = srv.username
                                   THEN [user_info |-> [auth |-> 0, message |-> "wrong password"]]
                                   ELSE NegEnvelope]
       ELSE srv' = [srv EXCEPT !.pc = "dispatch", !.user = u]
    /\ UNCHANGED <<now, memVars, storeVars, streams, categories, usersXtream>>

(* authenticate_user's SELECT and close, then "if not user": the negative   *)
(* envelope is the response, else the request goes on to its action.        *)
SrvAuthenticate ==
    /\ srv.pc = "auth"
    /\ LET u == XtreamAuthSelect(srv.username, srv.password) IN
       IF u = 0
       THEN srv' = [srv EXCEPT !.pc = "idle", !.response = NegEnvelope]
       ELSE srv' = [srv EXCEPT !.pc = "dispatch", !.user = u]
    /\ UNCHANGED <<now, memVars, storeVars, streams, categories, usersXtream>>

(* handle_api_request: the if/elif chain on action *)
SrvDispatch ==
    /\ srv.pc = "dispatch"
    /\ srv' = [srv EXCEPT !.pc = "idle",
                          !.response = SrvActionResponse(srv.action, srv.username)]
    /\ UNCHANGED <<now, memVars, storeVars, streams, categories, usersXtream>>

-----------------------------------------------------------------------------
(* Statistics: table statistics.  A user_id or stream_id of 0 stands for    *)
(* the argument left at its default None, stored as NULL.                   *)

StatUserArgs   == {0, 2}
StatStreamArgs == {1}
StatViewerArgs == {2, 3, 7}
StatByteArgs   == {0, 5}

(* today = datetime.now().strftime('%Y-%m-%d') *)
Today(t) == t

(* SELECT stat_id FROM statistics WHERE stat_date = ? AND user_id = ? AND    *)
(* stream_id = ?: the first matching stat_id, 0 when fetchone() is None.     *)
(* In SQL "column = NULL" is not true for any row.                           *)
StatSelect(st, d, u, sid) ==
    LET m == {i \in 1..Len(st) : /\ st[i].stat_date = d
                                  /\ u # 0 /\ st[i].user_id = u
                                  /\ sid # 0 /\ st[i].stream_id = sid}
    IN IF m = {} THEN 0 ELSE CHOOSE i \in m : \A j \in m : i <= j

MutStatUpdate(st, i, b, v) ==
    [st EXCEPT ![i] = [@ EXCEPT !.total_views = @ + v, !.total_bytes = @ + b,
                                !.peak_viewers = v]]

(* UPDATE statistics SET total_views = total_views + ?, total_bytes =        *)
(* total_bytes + ?, peak_viewers = CASE WHEN ? > peak_viewers THEN ? ELSE    *)
(* peak_viewers END WHERE stat_id = ?                                        *)
StatUpdate(st, i, b, v) ==
    [st EXCEPT ![i] = [@ EXCEPT !.total_views = @ + v, !.total_bytes = @ + b,
                                !.peak_viewers = IF v > @ THEN v ELSE @]]

(* INSERT INTO statistics (stat_date, user_id, stream_id, total_views,       *)
(* total_bytes, peak_viewers)                                                *)
StatInsert(st, d, u, sid, b, v) ==
    Append(st, [stat_date |-> d, user_id |-> u, stream_id |-> sid,
                total_views |-> v, total_bytes |-> b, peak_viewers |-> v])

(* add_statistic(user_id, stream_id, bytes_sent, viewers): takes self.lock,  *)
(* reads today's date and runs the SELECT; existing is the stat_id found.    *)
AddStatistic(t) ==
    /\ Ready(t)
    /\ Len(statCalls) < MaxStatCalls
    /\ \E u \in StatUserArgs, sid \in StatStreamArgs,
          b \in StatByteArgs, v \in StatViewerArgs :
          fr' = [fr EXCEPT ![t] = [NoFrame EXCEPT !.op = "add_statistic",
                   !.stat = [stat_date |-> Today(now), user_id |-> u,
                             stream_id |-> sid, bytes_sent |-> b, viewers |-> v,
                             existing |-> StatSelect(statistics, Today(now), u, sid)]]]
    /\ lock' = [lock EXCEPT ![db[t]] = t]
    /\ pc' = [pc EXCEPT ![t] = "stat_sel"]
    /\ UNCHANGED <<now, instance, mgrDb, built, db, ret, storeVars, srv, streams, categories, leaked, usersXtream>>

(* add_statistic after the SELECT: UPDATE the row found or INSERT a new one, *)
(* commit, close, leave the with block and return None.                      *)
AddStatisticWrite(t) ==
    /\ pc[t] = "stat_sel"
    /\ IF leaked THEN RaiseLocked(t, "add_statistic")
       ELSE
       LET a == fr[t].stat IN
       /\ statistics' = IF a.existing # 0
                        THEN StatUpdate(statistics, a.existing, a.bytes_sent, a.viewers)
                        ELSE StatInsert(statistics, a.stat_date, a.user_id,
                                        a.stream_id, a.bytes_sent, a.viewers)
       /\ statCalls' = Append(statCalls,
             [stat_date |-> a.stat_date, user_id |-> a.user_id,
              stream_id |-> a.stream_id, bytes_sent |-> a.bytes_sent,
              viewers |-> a.viewers])
       /\ lock' = [lock EXCEPT ![db[t]] = 0]
       /\ ret' = [ret EXCEPT ![t] = Ret("None", <<>>)]
       /\ pc' = [pc EXCEPT ![t] = "done"]
       /\ fr' = [fr EXCEPT ![t] = [NoFrame EXCEPT !.op = "add_statistic"]]
    /\ UNCHANGED <<now, instance, mgrDb, built, db, users, sessions, logs, srv, streams, categories, leaked, usersXtream>>

-----------------------------------------------------------------------------
(* Live streams and the playlist.  A Python str is the sequence of its      *)
(* pieces; QUOTE and NEWLINE are the characters the M3U grammar depends on. *)
(* None stands for Python's None and SQL NULL in a text column.             *)

QUOTE   == "\""
NEWLINE == "\n"
None    == <<"NoneType">>

(* str(v) as an f-string formats it *)
Str(v) == IF v = None THEN <<"None">> ELSE v

(* a or b *)
Or(a, b) == IF a = None \/ a = <<>> THEN b ELSE a

(* Code points of the pieces, for ORDER BY (BINARY collation).  The default *)
(* categories 1 and 2 are named in Arabic: "general" is U+0639.., "sports"  *)
(* is U+0631.., so "sports" sorts before "general".                         *)
CodePoint(c) ==
    CASE c = NEWLINE -> 10
      [] c = QUOTE   -> 34
      [] c = "X"     -> 88
      [] c = "Y"     -> 89
      [] c = "a"     -> 97
      [] c = "b"     -> 98
      [] c = "sports"  -> 1585
      [] c = "general" -> 1593

RECURSIVE TextLess(_, _)
TextLess(a, b) ==
    IF b = <<>> THEN FALSE
    ELSE IF a = <<>> THEN TRUE
    ELSE IF Head(a) # Head(b) THEN CodePoint(Head(a)) < CodePoint(Head(b))
    ELSE TextLess(Tail(a), Tail(b))

(* add_default_data: categories 1 and 2 *)
CategoryName(cid) ==
    CASE cid = 1 -> <<"general">>
      [] cid = 2 -> <<"sports">>
      [] OTHER   -> None

(* The arguments add_live_stream and generate_m3u_playlist are called with *)
StreamNames      == { <<"X">>, <<"Y">>, <<"a", QUOTE, NEWLINE, "b">> }
StreamCategories == { [category_id |-> 1, category_name |-> <<"catA">>],
                      [category_id |-> 2, category_name |-> <<"catB">>],
                      [category_id |-> 0, category_name |-> <<>>] }
StreamUsers      == {1, 2}
StreamUrls       == {"http://example.com/stream.m3u8"}
StreamUrlKeys    == {{"url"}, {"url", "stream_url"}}
PlaylistUsers    == {2}
OutputFormats    == {"ts", "m3u8"}

(* proxy_url = "http://localhost/live/" + md5(stream_url).hexdigest()[:8] *)
ProxyUrl(url) ==
    CASE url = "http://example.com/stream.m3u8" -> "http://localhost/live/33ef51b8"

(* The row INSERT INTO live_streams makes of stream_data; icon and epg_id   *)
(* are not given, is_active takes its default 1.                            *)
NewStream(name, cat, u, url) ==
    [stream_name |-> name, stream_url |-> url,
     category_id |-> cat.category_id, category_name |-> cat.category_name,
     stream_icon |-> None, epg_channel_id |-> None, user_id |-> u,
     proxy_url |-> ProxyUrl(url), is_active |-> 1, stream_id |-> 0]

InsertStream(ss, row) == Append(ss, [row EXCEPT !.stream_id = Len(ss) + 1])

(* ORDER BY c.category_name, ls.stream_name on the LEFT JOIN: the joined    *)
(* name of category_id, NULL first, then the stream name.                   *)
OrderedBefore(r, s) ==
    LET cr == CategoryName(r.category_id)
        cs == CategoryName(s.category_id)
    IN IF cr # cs
       THEN cr = None \/ (cs # None /\ TextLess(cr, cs))
       ELSE TextLess(r.stream_name, s.stream_name)

(* SELECT ls.*, c.category_name ... WHERE ls.user_id = ? AND ls.is_active = 1 *)
(* ORDER BY ...: every result order SQL allows (rows that tie come in any   *)
(* order).                                                                  *)
Owned(ss, u) == {i \in 1..Len(ss) : ss[i].user_id = u /\ ss[i].is_active = 1}

SelectStreams(ss, u) ==
    LET own == Owned(ss, u)
        n   == Cardinality(own)
    IN { [k \in 1..n |-> ss[f[k]]] :
           f \in { g \in [1..n -> own] :
                     /\ \A i, j \in 1..n : i # j => g[i] # g[j]
                     /\ \A i, j \in 1..n : i < j => ~OrderedBefore(ss[g[j]], ss[g[i]]) } }

(* The header lines of the document *)
M3uHeader(u, t) ==
    << "#EXTM3U", NEWLINE, "# Generated: ", ToString(t), NEWLINE,
       "# User ID: ", ToString(u), NEWLINE, NEWLINE >>

(* The group lines written when the category changes *)
M3uGroup(cat) ==
    << NEWLINE, "#EXTINF:-1 ", "group-title=", QUOTE >> \o Str(cat) \o
    << QUOTE, "," >> \o Str(cat) \o
    << NEWLINE, "#EXTVLCOPT:network-caching=1000", NEWLINE >>

MutStreamLink(r, fmt) == r.stream_url

(* if output_format == "ts": the proxy_url column, else the stream_url column *)
StreamLink(r, fmt) == IF fmt = "ts" THEN r.proxy_url ELSE r.stream_url

(* The channel lines of one stream.  dict(stream)['category_name'] is the   *)
(* first column of that name: the stream's own category_name.               *)
M3uEntry(r, fmt) ==
    << "#EXTINF:-1 ", "tvg-id=", QUOTE >> \o Str(Or(r.epg_channel_id, r.stream_name)) \o
    << QUOTE, " ", "tvg-name=", QUOTE >> \o Str(r.stream_name) \o
    << QUOTE, " ", "tvg-logo=", QUOTE >> \o Str(r.stream_icon) \o
    << QUOTE, " ", "group-title=", QUOTE >> \o Str(r.category_name) \o
    << QUOTE, "," >> \o Str(r.stream_name) \o << NEWLINE >> \o
    << StreamLink(r, fmt), NEWLINE >>

MutCategoryChanged(r, current_category) == TRUE

(* if stream_dict['category_name'] != current_category *)
CategoryChanged(r, current_category) == r.category_name # current_category

(* for stream in streams: ... with current_category carried along, "" at    *)
(* the start                                                                *)
RECURSIVE M3uBody(_, _, _)
M3uBody(rows, current_category, fmt) ==
    IF rows = <<>> THEN <<>>
    ELSE LET r == Head(rows) IN
         (IF CategoryChanged(r, current_category)
          THEN M3uGroup(r.category_name) ELSE <<>>)
         \o M3uEntry(r, fmt)
         \o M3uBody(Tail(rows), r.category_name, fmt)

GenerateM3u(rows, u, fmt, t) == M3uHeader(u, t) \o M3uBody(rows, <<>>, fmt)

(* add_live_stream(stream_data).  stream_data['stream_url'] is read first,  *)
(* inside the with block: a record without that key raises KeyError and the *)
(* with block releases the lock.  Otherwise the row is inserted, the        *)
(* owner's total_streams is incremented, the transaction is committed and   *)
(* self.log_action is called inside the with block.                         *)
AddLiveStream(t) ==
    /\ Ready(t)
    /\ Len(streams) < MaxStreams
    /\ \E name \in StreamNames, cat \in StreamCategories, u \in StreamUsers,
          url \in StreamUrls, keys \in StreamUrlKeys :
          IF "stream_url" \notin keys
          THEN /\ ret' = [ret EXCEPT ![t] = Ret("KeyError", <<>>)]
               /\ pc' = [pc EXCEPT ![t] = "done"]
               /\ fr' = [fr EXCEPT ![t] = [NoFrame EXCEPT !.op = "add_live_stream",
                                                          !.u = u]]
               /\ UNCHANGED <<lock, streams, users>>
          ELSE IF leaked THEN RaiseLocked(t, "add_live_stream")
          ELSE /\ streams' = InsertStream(streams, NewStream(name, cat, u, url))
               /\ users' = [i \in 1..Len(users) |->
                              IF i = u THEN [users[i] EXCEPT !.total_streams = @ + 1]
                              ELSE users[i]]
               /\ lock' = [lock EXCEPT ![db[t]] = t]
               /\ pc' = [pc EXCEPT ![t] = "log_wait"]
               /\ fr' = [fr EXCEPT ![t] = [NoFrame EXCEPT !.op = "add_live_stream",
                                             !.u = u, !.lastrowid = Len(streams) + 1]]
               /\ ret' = ret
    /\ UNCHANGED <<now, instance, mgrDb, built, db, sessions, statistics,
                   statCalls, logs, srv, categories, leaked, usersXtream>>

(* generate_m3u_playlist(user_id, output_format): one critical section      *)
GenerateM3uPlaylist(t) ==
    /\ Ready(t)
    /\ \E u \in PlaylistUsers, fmt \in OutputFormats :
       \E rows \in SelectStreams(streams, u) :
          /\ fr' = [fr EXCEPT ![t] = [NoFrame EXCEPT !.op = "generate_m3u_playlist",
                                        !.u = u, !.fmt = fmt, !.rows = rows]]
          /\ ret' = [ret EXCEPT ![t] = Ret("m3u", GenerateM3u(rows, u, fmt, now))]
    /\ pc' = [pc EXCEPT ![t] = "done"]
    /\ UNCHANGED <<now, instance, mgrDb, built, lock, db, storeVars, streams, srv, categories, leaked, usersXtream>>

-----------------------------------------------------------------------------
(* Subscribers: create_user and get_xtream_user_info                        *)

(* api_key = sha256(f"{username}{datetime.now()}").hexdigest(): a function  *)
(* of the two values, taken as injective in them.                           *)
ApiKey(un, t) == <<"sha256", un, ToString(t)>>

(* The row INSERT INTO users makes; role and email are not kept *)
NewUser(un, pw, mc, t) ==
    [username |-> un, password |-> Sha256(pw), is_active |-> 1,
     max_connections |-> mc, expires_at |-> NullTs, last_login |-> NullTs,
     total_streams |-> 0, api_key |-> ApiKey(un, t)]

(* create_user(..., max_connections: int = 1): the argument is stored as    *)
(* given; the column has no CHECK.                                          *)
MaxConnectionsArgs == {DefaultMaxConnections, 0, -1}

MutUsernameTaken(us, un) == FALSE

(* username TEXT UNIQUE NOT NULL: the INSERT is refused when a row has the  *)
(* name.  (api_key TEXT UNIQUE: the key of a new name differs from every    *)
(* key stored, and NULL keys conflict with nothing.)                        *)
UsernameTaken(us, un) == \E i \in 1..Len(us) : us[i].username = un

(* create_user(username, password, max_connections): the INSERT fails on a username that     *)
(* exists (UNIQUE): IntegrityError leaves the with block.  Otherwise the    *)
(* row is committed and self.log_action is called inside the with block.    *)
(* The IntegrityError is raised before conn.close(): the connection stays   *)
(* open inside the write transaction the INSERT began.                      *)
CreateUser(t) ==
    /\ Ready(t)
    /\ \E un \in Usernames, pw \in Passwords, mc \in MaxConnectionsArgs :
          IF leaked THEN RaiseLocked(t, "create_user")
          ELSE IF UsernameTaken(users, un)
          THEN /\ ret' = [ret EXCEPT ![t] = Ret("IntegrityError", <<>>)]
               /\ pc' = [pc EXCEPT ![t] = "done"]
               /\ fr' = [fr EXCEPT ![t] = [NoFrame EXCEPT !.op = "create_user",
                                             !.username = un, !.password = pw]]
               /\ leaked' = TRUE
               /\ UNCHANGED <<lock, users>>
          ELSE /\ Len(users) < MaxUsers
               /\ users' = Append(users, NewUser(un, pw, mc, now))
               /\ lock' = [lock EXCEPT ![db[t]] = t]
               /\ pc' = [pc EXCEPT ![t] = "log_wait"]
               /\ fr' = [fr EXCEPT ![t] = [NoFrame EXCEPT !.op = "create_user",
                                             !.username = un, !.password = pw,
                                             !.lastrowid = Len(users) + 1]]
               /\ ret' = ret
               /\ leaked' = leaked
    /\ UNCHANGED <<now, instance, mgrDb, built, db, sessions, statistics,
                   statCalls, logs, streams, srv, categories, usersXtream>>

MutXtreamUserInfo(us, ss, un, t) ==
    LET m == {i \in 1..Len(us) : us[i].username = un /\ us[i].is_active = 1} IN
    IF m = {} THEN NegEnvelope
    ELSE LET r == us[CHOOSE i \in m : TRUE] IN
         [username |-> <<r.username>>, password |-> r.password, auth |-> 1]

(* get_xtream_user_info's SELECT and the dict it returns: the subscriber    *)
(* row joined with its active live streams (vod_streams and series have no  *)
(* rows); {"user_info": {"auth": 0}} when no active subscriber has the name. *)
XtreamUserInfo(us, ss, un, t) ==
    LET m == {i \in 1..Len(us) : us[i].username = un /\ us[i].is_active = 1} IN
    IF m = {} THEN NegEnvelope
    ELSE LET u == CHOOSE i \in m : TRUE
             r == us[u]
         IN [username |-> <<r.username>>, password |-> MaskedPassword,
             message |-> <<"authenticated">>, auth |-> 1, status |-> <<"Active">>,
             exp_date |-> IF r.expires_at = NullTs THEN <<"2099-12-31">>
                          ELSE <<ToString(r.expires_at)>>,
             is_trial |-> 0, active_cons |-> 0, created_at |-> <<ToString(t)>>,
             max_connections |-> r.max_connections,
             allowed_output_formats |-> <<"m3u8", "ts", "rtmp">>,
             total_streams |-> Cardinality(Owned(ss, u)),
             total_vod |-> 0, total_series |-> 0]

(* get_xtream_user_info(username): one critical section *)
GetXtreamUserInfo(t) ==
    /\ Ready(t)
    /\ \E un \in Usernames :
          /\ fr' = [fr EXCEPT ![t] = [NoFrame EXCEPT !.op = "get_xtream_user_info",
                                        !.username = un]]
          /\ ret' = [ret EXCEPT ![t] = Ret("info", XtreamUserInfo(users, streams, un, now))]
    /\ pc' = [pc EXCEPT ![t] = "done"]
    /\ UNCHANGED <<now, instance, mgrDb, built, lock, db, storeVars, streams, srv, categories, leaked, usersXtream>>

-----------------------------------------------------------------------------
(* Categories and the listings                                              *)

(* The arguments add_category, get_categories and get_live_streams are      *)
(* called with; 0 stands for an argument left None.                         *)
CategoryNames   == { <<"X">>, <<"Y">> }
CategoryTypes   == {"live"}
CategoryOwners  == {0, 2}
ListTypes       == {"", "live"}
ListOwners      == {0, 2}
ListCategoryIds == {0, 1}

(* SELECT MAX(sort_order) FROM categories WHERE category_type = ? AND       *)
(* user_id = ?, then "or 0".  With user_id None the comparison user_id =    *)
(* NULL holds for no row and MAX is NULL.                                   *)
MaxSortOrder(cs, type, owner) ==
    LET m == {i \in 1..Len(cs) : /\ cs[i].category_type = type
                                  /\ owner # 0
                                  /\ cs[i].user_id = owner}
    IN IF m = {} THEN 0
       ELSE cs[CHOOSE i \in m : \A j \in m : cs[j].sort_order <= cs[i].sort_order].sort_order

(* The row INSERT INTO categories (category_name, category_type, parent_id, *)
(* user_id, sort_order) makes; is_active takes its default 1.               *)
NewCategory(cs, name, type, owner) ==
    [category_name |-> name, parent_id |-> 0, category_type |-> type,
     sort_order |-> MaxSortOrder(cs, type, owner) + 1, user_id |-> owner,
     is_active |-> 1]

(* add_category(name, category_type, 0, user_id): one critical section      *)
(* reads the highest sort order and inserts; a row the UNIQUE constraint    *)
(* refuses raises IntegrityError before conn.close(), the connection stays  *)
(* open inside its write transaction.  After the commit self.log_action is  *)
(* called inside the with block.                                            *)
AddCategory(t) ==
    /\ Ready(t)
    /\ \E name \in CategoryNames, type \in CategoryTypes, owner \in CategoryOwners :
          LET row == NewCategory(categories, name, type, owner) IN
          IF leaked THEN RaiseLocked(t, "add_category")
          ELSE IF CategoryConflict(categories, row)
          THEN /\ ret' = [ret EXCEPT ![t] = Ret("IntegrityError", <<>>)]
               /\ pc' = [pc EXCEPT ![t] = "done"]
               /\ fr' = [fr EXCEPT ![t] = [NoFrame EXCEPT !.op = "add_category",
                                                          !.u = owner]]
               /\ leaked' = TRUE
               /\ UNCHANGED <<lock, categories>>
          ELSE /\ Len(categories) < MaxCategories
               /\ categories' = Append(categories, row)
               /\ lock' = [lock EXCEPT ![db[t]] = t]
               /\ pc' = [pc EXCEPT ![t] = "log_wait"]
               /\ fr' = [fr EXCEPT ![t] = [NoFrame EXCEPT !.op = "add_category",
                                             !.u = owner,
                                             !.lastrowid = Len(categories) + 1]]
               /\ ret' = ret
               /\ leaked' = leaked
    /\ UNCHANGED <<now, instance, mgrDb, built, db, storeVars, streams, srv, usersXtream>>

(* Every order of the rows `own` of table tb that ORDER BY allows, before   *)
(* being the pairs of rows the ORDER BY terms put in order: no row comes    *)
(* after one it is ordered before (rows that tie come in any order).        *)
Ordered(tb, own, before) ==
    LET n == Cardinality(own)
    IN { [k \in 1..n |-> tb[f[k]]] :
           f \in { g \in [1..n -> own] :
                     /\ \A i, j \in 1..n : i # j => g[i] # g[j]
                     /\ \A i, j \in 1..n : i < j => <<g[j], g[i]>> \notin before } }

(* ORDER BY sort_order, category_name *)
CategoryBefore(r, s) ==
    \/ r.sort_order < s.sort_order
    \/ r.sort_order = s.sort_order /\ TextLess(r.category_name, s.category_name)

(* SELECT * FROM categories WHERE is_active = 1 [AND category_type = ?]     *)
(* [AND (user_id = ? OR user_id IS NULL)] ORDER BY sort_order, category_name *)
SelectCategories(cs, type, owner) ==
    Ordered(cs, {i \in 1..Len(cs) :
                   /\ cs[i].is_active = 1
                   /\ type # "" => cs[i].category_type = type
                   /\ owner # 0 => (cs[i].user_id = owner \/ cs[i].user_id = 0)},
            {p \in (1..Len(cs)) \X (1..Len(cs)) : CategoryBefore(cs[p[1]], cs[p[2]])})

(* ORDER BY stream_name *)
StreamBefore(r, s) == TextLess(r.stream_name, s.stream_name)

(* SELECT * FROM live_streams WHERE is_active = 1 [AND user_id = ?]         *)
(* [AND category_id = ?] ORDER BY stream_name                               *)
SelectLiveStreams(ss, owner, cid) ==
    Ordered(ss, {i \in 1..Len(ss) :
                   /\ ss[i].is_active = 1
                   /\ owner # 0 => ss[i].user_id = owner
                   /\ cid # 0 => ss[i].category_id = cid},
            {p \in (1..Len(ss)) \X (1..Len(ss)) : StreamBefore(ss[p[1]], ss[p[2]])})

(* get_categories(category_type, user_id): one critical section *)
GetCategories(t) ==
    /\ Ready(t)
    /\ \E type \in ListTypes, owner \in ListOwners :
       \E rows \in SelectCategories(categories, type, owner) :
          /\ fr' = [fr EXCEPT ![t] = [NoFrame EXCEPT !.op = "get_categories",
                                        !.u = owner, !.category_type = type]]
          /\ ret' = [ret EXCEPT ![t] = Ret("rows", rows)]
    /\ pc' = [pc EXCEPT ![t] = "done"]
    /\ UNCHANGED <<now, instance, mgrDb, built, lock, db, storeVars, streams, srv,
                   categories, leaked, usersXtream>>

(* get_live_streams(user_id, category_id): one critical section *)
GetLiveStreams(t) ==
    /\ Ready(t)
    /\ \E owner \in ListOwners, cid \in ListCategoryIds :
       \E rows \in SelectLiveStreams(streams, owner, cid) :
          /\ fr' = [fr EXCEPT ![t] = [NoFrame EXCEPT !.op = "get_live_streams",
                                        !.u = owner, !.category_id = cid]]
          /\ ret' = [ret EXCEPT ![t] = Ret("rows", rows)]
    /\ pc' = [pc EXCEPT ![t] = "done"]
    /\ UNCHANGED <<now, instance, mgrDb, built, lock, db, storeVars, streams, srv,
                   categories, leaked, usersXtream>>

-----------------------------------------------------------------------------
GetDb(t) ==
    GetDbTest(t) \/ GetDbNew(t) \/ GetDbBuild(t) \/ GetDbSet(t) \/ GetDbReturn(t)

SessionOp(t) ==
    \/ CheckUserConnections(t)
    \/ AdmitRefuse(t)
    \/ CreateSession(t)
    \/ UpdateSession(t)
    \/ CleanupOldData(t)
    \/ LogAction(t)

Next ==
    \/ Tick
    \/ Restart
    \/ Collect
    \/ \E t \in Threads : GetDbTest(t)
    \/ \E t \in Threads : GetDbNew(t)
    \/ \E t \in Threads : GetDbBuild(t)
    \/ \E t \in Threads : GetDbSet(t)
    \/ \E t \in Threads : GetDbReturn(t)
    \/ \E t \in Threads : CheckUserConnections(t)
    \/ \E t \in Threads : AdmitRefuse(t)
    \/ \E t \in Threads : CreateSession(t)
    \/ \E t \in Threads : UpdateSession(t)
    \/ \E t \in Threads : CleanupOldData(t)
    \/ \E t \in Threads : LogAction(t)
    \/ \E t \in Threads : Resume(t)

Spec == Init /\ [][Next]_vars

(* Authentication: the store's authenticate_user called by the request      *)
(* threads, and the protocol server answering player_api requests.  The     *)
(* server is constructed (setup_database has run).                          *)
AuthNext ==
    \/ Tick
    \/ \E t \in Threads : GetDbTest(t)
    \/ \E t \in Threads : GetDbNew(t)
    \/ \E t \in Threads : GetDbBuild(t)
    \/ \E t \in Threads : GetDbSet(t)
    \/ \E t \in Threads : GetDbReturn(t)
    \/ \E t \in Threads : AuthenticateUser(t)
    \/ \E t \in Threads : AuthFinish(t)
    \/ \E t \in Threads : LogAction(t)
    \/ \E t \in Threads : Resume(t)
    \/ SrvReceive
    \/ SrvAuthenticate
    \/ SrvDispatch

AuthSpec == Init /\ [][AuthNext]_vars

(* Statistics: the process has its one IPTVDatabase (constructed by thread  *)
(* 1 at time 0) and every thread has got it from get_db().                  *)
StatInit ==
    /\ now = 0
    /\ instance = 1
    /\ mgrDb = [m \in Threads |-> IF m = 1 THEN 1 ELSE 0]
    /\ built = {1}
    /\ lock = [i \in Threads |-> 0]
    /\ pc = [t \in Threads |-> "idle"]
    /\ db = [t \in Threads |-> 1]
    /\ fr = [t \in Threads |-> NoFrame]
    /\ ret = [t \in Threads |-> NoRet]
    /\ users = InitDatabase(<<>>, 0)
    /\ sessions = {}
    /\ statistics = <<>>
    /\ statCalls = <<>>
    /\ logs = <<>>
    /\ streams = <<>>
    /\ categories = DefaultCategories
    /\ leaked = FALSE
    /\ usersXtream = DefaultXtreamUsers
    /\ srv = IdleSrv

StatNext ==
    \/ Tick
    \/ \E t \in Threads : AddStatistic(t)
    \/ \E t \in Threads : AddStatisticWrite(t)
    \/ \E t \in Threads : Resume(t)

StatSpec == StatInit /\ [][StatNext]_vars

(* The playlist: the process has its one IPTVDatabase and the store holds    *)
(* the live streams earlier add_live_stream calls inserted.                 *)
StreamRows ==
    { NewStream(name, cat, u, url) :
        name \in StreamNames, cat \in StreamCategories,
        u \in StreamUsers, url \in StreamUrls }

StreamTables ==
    UNION { { [i \in 1..n |-> [f[i] EXCEPT !.stream_id = i]] : f \in [1..n -> StreamRows] } :
            n \in 0..MaxStreams }

ListInit ==
    /\ now = 0
    /\ instance = 1
    /\ mgrDb = [m \in Threads |-> IF m = 1 THEN 1 ELSE 0]
    /\ built = {1}
    /\ lock = [i \in Threads |-> 0]
    /\ pc = [t \in Threads |-> "idle"]
    /\ db = [t \in Threads |-> 1]
    /\ fr = [t \in Threads |-> NoFrame]
    /\ ret = [t \in Threads |-> NoRet]
    /\ streams \in StreamTables
    /\ users = [i \in 1..2 |->
                  [InitDatabase(<<>>, 0)[i] EXCEPT
                     !.total_streams = Cardinality({j \in 1..Len(streams) :
                                                      streams[j].user_id = i})]]
    /\ sessions = {}
    /\ statistics = <<>>
    /\ statCalls = <<>>
    /\ logs = <<>>
    /\ categories = DefaultCategories
    /\ leaked = FALSE
    /\ usersXtream = DefaultXtreamUsers
    /\ srv = IdleSrv

ListNext ==
    \/ \E t \in Threads : AddLiveStream(t)
    \/ \E t \in Threads : GenerateM3uPlaylist(t)
    \/ \E t \in Threads : LogAction(t)
    \/ \E t \in Threads : Resume(t)

ListSpec == ListInit /\ [][ListNext]_vars

(* Subscribers: the process has its one IPTVDatabase; the store holds the   *)
(* default subscribers and those earlier create_user calls inserted.        *)
UserTables ==
    {InitDatabase(<<>>, 0)} \cup
    { Append(InitDatabase(<<>>, 0), NewUser(un, pw, DefaultMaxConnections, 0)) :
        un \in Usernames \ {"admin", "demo"}, pw \in Passwords }

UserInit ==
    /\ now = 0
    /\ instance = 1
    /\ mgrDb = [m \in Threads |-> IF m = 1 THEN 1 ELSE 0]
    /\ built = {1}
    /\ lock = [i \in Threads |-> 0]
    /\ pc = [t \in Threads |-> "idle"]
    /\ db = [t \in Threads |-> 1]
    /\ fr = [t \in Threads |-> NoFrame]
    /\ ret = [t \in Threads |-> NoRet]
    /\ users \in UserTables
    /\ sessions = {}
    /\ statistics = <<>>
    /\ statCalls = <<>>
    /\ logs = <<>>
    /\ streams = <<>>
    /\ categories = DefaultCategories
    /\ leaked = FALSE
    /\ usersXtream = DefaultXtreamUsers
    /\ srv = IdleSrv

UserThreadNext(t) ==
    \/ CreateUser(t)
    \/ AuthenticateUser(t)
    \/ AuthFinish(t)
    \/ GetXtreamUserInfo(t)
    \/ LogAction(t)
    \/ Resume(t)

UserNext ==
    \/ \E t \in Threads : CreateUser(t)
    \/ \E t \in Threads : AuthenticateUser(t)
    \/ \E t \in Threads : AuthFinish(t)
    \/ \E t \in Threads : GetXtreamUserInfo(t)
    \/ \E t \in Threads : LogAction(t)
    \/ \E t \in Threads : Resume(t)
    \/ Collect
    \/ SrvReceive
    \/ SrvAuthenticate
    \/ SrvDispatch

UserSpec == UserInit /\ [][UserNext]_vars

(* Subscribers and their caps: processes that start, create subscribers,    *)
(* read their caps and admit or refuse, and are started again.              *)
CapNext ==
    \/ Restart
    \/ Collect
    \/ \E t \in Threads : GetDbTest(t)
    \/ \E t \in Threads : GetDbNew(t)
    \/ \E t \in Threads : GetDbBuild(t)
    \/ \E t \in Threads : GetDbSet(t)
    \/ \E t \in Threads : GetDbReturn(t)
    \/ \E t \in Threads : CreateUser(t)
    \/ \E t \in Threads : CheckUserConnections(t)
    \/ \E t \in Threads : AdmitRefuse(t)
    \/ \E t \in Threads : CreateSession(t)
    \/ \E t \in Threads : LogAction(t)
    \/ \E t \in Threads : Resume(t)

CapSpec == Init /\ [][CapNext]_vars

(* Every thread that can take a step eventually takes one *)
UserFairSpec == UserSpec /\ \A t \in Threads : WF_vars(UserThreadNext(t))

(* Deactivated subscribers.  No operation of the program writes is_active:  *)
(* a row has 0 there when the store's administrator has set it.  The store  *)
(* holds the default subscribers and one created later, the server's table  *)
(* the default subscriber and one added later, each active or deactivated.  *)
ActiveFlags == {0, 1}

FlaggedUserTables ==
    { Append(InitDatabase(<<>>, 0),
             [NewUser(un, pw, DefaultMaxConnections, 0) EXCEPT !.is_active = a]) :
        un \in Usernames \ {"admin", "demo"}, pw \in Passwords \ {"wrong"},
        a \in ActiveFlags }

FlaggedXtreamUserTables ==
    { Append(DefaultXtreamUsers,
             [username |-> un, password |-> Md5(pw), is_active |-> a,
              max_connections |-> DefaultMaxConnections, created_at |-> 0,
              expires_at |-> NullTs]) :
        un \in SrvUsernames \ {"demo"}, pw \in SrvPasswords \ {"wrong"},
        a \in ActiveFlags }

FlaggedInit ==
    /\ now = 0
    /\ instance = 1
    /\ mgrDb = [m \in Threads |-> IF m = 1 THEN 1 ELSE 0]
    /\ built = {1}
    /\ lock = [i \in Threads |-> 0]
    /\ pc = [t \in Threads |-> "idle"]
    /\ db = [t \in Threads |-> 1]
    /\ fr = [t \in Threads |-> NoFrame]
    /\ ret = [t \in Threads |-> NoRet]
    /\ users \in FlaggedUserTables
    /\ sessions = {}
    /\ statistics = <<>>
    /\ statCalls = <<>>
    /\ logs = <<>>
    /\ streams = <<>>
    /\ categories = DefaultCategories
    /\ leaked = FALSE
    /\ usersXtream \in FlaggedXtreamUserTables
    /\ srv = IdleSrv

FlaggedNext ==
    \/ \E t \in Threads : AuthenticateUser(t)
    \/ \E t \in Threads : AuthFinish(t)
    \/ \E t \in Threads : GetXtreamUserInfo(t)
    \/ \E t \in Threads : Resume(t)
    \/ SrvReceive
    \/ SrvAuthenticate
    \/ SrvDispatch

FlaggedSpec == FlaggedInit /\ [][FlaggedNext]_vars

(* Categories: a fresh process, started again on the store it left, whose   *)
(* threads construct the database and add categories.                       *)
CatNext ==
    \/ Restart
    \/ Collect
    \/ \E t \in Threads : GetDbTest(t)
    \/ \E t \in Threads : GetDbNew(t)
    \/ \E t \in Threads : GetDbBuild(t)
    \/ \E t \in Threads : GetDbSet(t)
    \/ \E t \in Threads : GetDbReturn(t)
    \/ \E t \in Threads : AddCategory(t)
    \/ \E t \in Threads : LogAction(t)
    \/ \E t \in Threads : Resume(t)

CatSpec == Init /\ [][CatNext]_vars

(* The listings: the process has its one IPTVDatabase, the server is        *)
(* constructed, and the store holds the default categories with those       *)
(* earlier add_category calls inserted and the live streams earlier         *)
(* add_live_stream calls inserted.                                          *)
MaxListedCategories == 1   \* rows add_category inserted before the listings
MaxListedStreams    == 2   \* rows add_live_stream inserted before the listings

RECURSIVE CategoryTablesOf(_)
CategoryTablesOf(n) ==
    IF n = 0 THEN {DefaultCategories}
    ELSE LET prev == CategoryTablesOf(n - 1) IN
         prev \cup
         { Append(cs, NewCategory(cs, name, type, owner)) :
             cs \in prev, name \in CategoryNames, type \in CategoryTypes,
             owner \in CategoryOwners }

CategoryTables ==
    { cs \in CategoryTablesOf(MaxListedCategories) :
        \A i \in 1..Len(cs) :
           ~CategoryConflict(SubSeq(cs, 1, i - 1), cs[i]) }

ListedStreamRows ==
    { NewStream(name, cat, u, url) :
        name \in {<<"X">>, <<"Y">>},
        cat \in {[category_id |-> 1, category_name |-> <<"catA">>]},
        u \in StreamUsers, url \in StreamUrls }

ListedStreamTables ==
    UNION { { [i \in 1..n |-> [f[i] EXCEPT !.stream_id = i]] :
                f \in [1..n -> ListedStreamRows] } :
            n \in 0..MaxListedStreams }

BrowseInit ==
    /\ now = 0
    /\ instance = 1
    /\ mgrDb = [m \in Threads |-> IF m = 1 THEN 1 ELSE 0]
    /\ built = {1}
    /\ lock = [i \in Threads |-> 0]
    /\ pc = [t \in Threads |-> "idle"]
    /\ db = [t \in Threads |-> 1]
    /\ fr = [t \in Threads |-> NoFrame]
    /\ ret = [t \in Threads |-> NoRet]
    /\ streams \in ListedStreamTables
    /\ users = [i \in 1..2 |->
                  [InitDatabase(<<>>, 0)[i] EXCEPT
                     !.total_streams = Cardinality({j \in 1..Len(streams) :
                                                      streams[j].user_id = i})]]
    /\ sessions = {}
    /\ statistics = <<>>
    /\ statCalls = <<>>
    /\ logs = <<>>
    /\ categories \in CategoryTables
    /\ leaked = FALSE
    /\ usersXtream = DefaultXtreamUsers
    /\ srv = IdleSrv

BrowseNext ==
    \/ \E t \in Threads : GetCategories(t)
    \/ \E t \in Threads : GetLiveStreams(t)
    \/ \E t \in Threads : Resume(t)
    \/ SrvReceive
    \/ SrvAuthenticate
    \/ SrvDispatch

BrowseSpec == BrowseInit /\ [][BrowseNext]_vars

(* Statistics recorded by the threads of a process that get the database    *)
(* from get_db()                                                            *)
StatRaceNext ==
    \/ \E t \in Threads : GetDbTest(t)
    \/ \E t \in Threads : GetDbNew(t)
    \/ \E t \in Threads : GetDbBuild(t)
    \/ \E t \in Threads : GetDbSet(t)
    \/ \E t \in Threads : GetDbReturn(t)
    \/ \E t \in Threads : AddStatistic(t)
    \/ \E t \in Threads : AddStatisticWrite(t)
    \/ \E t \in Threads : Resume(t)

StatRaceSpec == Init /\ [][StatRaceNext]_vars

(* Every step of thread t *)
ThreadNext(t) == GetDb(t) \/ SessionOp(t) \/ Resume(t)

(* The threads of the process are scheduled fairly: a thread that can take  *)
(* a step is not passed over forever.  Nothing makes the clock tick or the  *)
(* process start again.                                                     *)
FairSpec == Spec /\ \A t \in Threads : WF_vars(ThreadNext(t))

-----------------------------------------------------------------------------
(* Properties *)

(* A thread is inside create_session: it holds the row it inserted and has  *)
(* called log_action.                                                       *)
InCreateSession(t) == pc[t] = "log_wait" /\ fr[t].op = "create_session"

CapacityInv ==
    \A u \in UserIds : ActiveConnections(sessions, u) <= users[u].max_connections

AdmissionAtomic ==
    \A t \in Threads :
        CreateSession(t) => fr[t].ac = ActiveConnections(sessions, fr[t].u)

(* C1: in every reachable state each subscriber has at most max_connections *)
(* active sessions, and every session insert of an admission is made on the *)
(* store the admission read its count from (no other thread's store         *)
(* operation has changed the count in between).                             *)
C1_CapacityUnderConcurrency == []CapacityInv /\ [][AdmissionAtomic]_vars

(* C2: the admission of a subscriber with cap 1 and no other active session *)
(* returns its session id: once its row is inserted, the call is never      *)
(* left waiting for a lock that only its own return would release.          *)
C2_FirstAdmissionReturns ==
    \A t \in Threads :
        (/\ InCreateSession(t)
         /\ users[fr[t].u].max_connections = 1
         /\ ActiveConnections(sessions, fr[t].u) = 1)
        => lock[db[t]] # t

(* C3: under fair scheduling every create_session call, its log_action      *)
(* included, comes to an end.                                               *)
C3_CreateSessionCompletes ==
    \A t \in Threads : InCreateSession(t) ~> ~InCreateSession(t)

ChangedCounts ==
    {u \in UserIds : ActiveConnections(sessions', u) # ActiveConnections(sessions, u)}

(* C8: a close changes the active-session count of the closed session's     *)
(* owner only: no close step changes the count of two subscribers.          *)
C8_CloseTouchesOneSubscriber ==
    [][\A t \in Threads : CleanupOldData(t) => Cardinality(ChangedCounts) <= 1]_vars

(* C9: a session that is inactive is inactive in every later state.         *)
C9_InactiveIsTerminal ==
    [][\A s \in sessions : s.is_active = 0 =>
          \A s2 \in sessions' : s2.session_id = s.session_id => s2.is_active = 0]_vars

(* C9 witness: update_session has been called on a session that is closed *)
C9_Witness ==
    \E t \in Threads, s \in sessions :
        /\ pc[t] = "done" /\ fr[t].op = "update_session"
        /\ fr[t].sid = s.session_id /\ s.is_active = 0

-----------------------------------------------------------------------------
(* Authentication properties *)

(* C4: no subscriber is logged in after its expiry: last_login, which only  *)
(* a successful authenticate_user writes, is never later than expires_at.   *)
C4_ExpiredNeverAuthenticates ==
    \A u \in UserIds :
        (users[u].expires_at # NullTs /\ users[u].last_login # NullTs)
            => users[u].last_login <= users[u].expires_at

(* The request the server holds names a user of users_xtream with that      *)
(* user's password.                                                         *)
SrvCredentialsValid ==
    \E i \in 1..Len(XtreamUsers) :
        /\ XtreamUsers[i].username = srv.username
        /\ XtreamUsers[i].password = Md5(srv.password)
        /\ XtreamUsers[i].is_active = 1

SrvResponded == srv.pc = "idle" /\ srv.response # NoResponse

(* C5: every authentication that fails has one and the same result, None    *)
(* from the store and the negative envelope from the server, whether the    *)
(* username exists (wrong password) or not.                                 *)
C5_FailedAuthUniform ==
    /\ \A t \in Threads :
          (pc[t] = "done" /\ fr[t].op = "authenticate_user" /\ fr[t].u = 0)
              => ret[t] = Ret("None", <<>>)
    /\ (SrvResponded /\ ~SrvCredentialsValid) => srv.response = NegEnvelope

(* C5 witness: an existing username with a wrong password has been refused  *)
(* by the store and by the server.                                          *)
C5_Witness ==
    /\ SrvResponded /\ srv.username = "demo" /\ srv.password = "wrong"
    /\ srv.response = NegEnvelope
    /\ \E t \in Threads :
          /\ pc[t] = "done" /\ fr[t].op = "authenticate_user"
          /\ fr[t].username = "demo" /\ fr[t].password = "wrong"

(* C6: a player_api request reaches its action, and gets a response other   *)
(* than the negative envelope, only with credentials authenticate accepts.  *)
C6_AuthGatesProtocol ==
    /\ srv.pc = "dispatch" => SrvCredentialsValid
    /\ (SrvResponded /\ srv.response # NegEnvelope) => SrvCredentialsValid

(* C6 witness: an authenticated request has been answered with user-info *)
C6_Witness ==
    /\ SrvResponded /\ srv.action = ""
    /\ srv.response = SrvUserInfo(srv.username)
    /\ srv.response # NegEnvelope

(* The threads inside a critical section of the store *)
InsideStore == {t \in Threads : db[t] # 0 /\ lock[db[t]] = t}

(* C7: at most one thread at a time is inside a read or write of the store: *)
(* the threads holding a store lock and the server thread with its          *)
(* connection open number at most one.                                      *)
C7_StoreSerialized ==
    Cardinality(InsideStore) + (IF srv.pc = "auth" THEN 1 ELSE 0) <= 1

-----------------------------------------------------------------------------
(* Statistics properties *)

(* The add_statistic calls made for key (d, u, sid), in order *)
CallsFor(d, u, sid) ==
    SelectSeq(statCalls, LAMBDA c : c.stat_date = d /\ c.user_id = u /\ c.stream_id = sid)

RECURSIVE SumViewers(_)
SumViewers(cs) == IF cs = <<>> THEN 0 ELSE Head(cs).viewers + SumViewers(Tail(cs))

RECURSIVE SumBytes(_)
SumBytes(cs) == IF cs = <<>> THEN 0 ELSE Head(cs).bytes_sent + SumBytes(Tail(cs))

RECURSIVE MaxViewers(_)
MaxViewers(cs) ==
    IF Len(cs) = 1 THEN Head(cs).viewers
    ELSE LET m == MaxViewers(Tail(cs)) IN
         IF Head(cs).viewers > m THEN Head(cs).viewers ELSE m

StatKeys ==
    {<<c.stat_date, c.user_id, c.stream_id>> : c \in {statCalls[i] : i \in 1..Len(statCalls)}}

RowsFor(k) ==
    {i \in 1..Len(statistics) : /\ statistics[i].stat_date = k[1]
                                /\ statistics[i].user_id = k[2]
                                /\ statistics[i].stream_id = k[3]}

(* C10: after any sequence of add_statistic calls, for every (day,          *)
(* subscriber, stream) key that was recorded there is a row, and the row    *)
(* has peak_viewers = the maximum of the viewers given, total_views = their *)
(* sum and total_bytes = the sum of the bytes given.                        *)
C10_StatMerge ==
    \A k \in StatKeys :
        (k[2] # 0 /\ k[3] # 0) =>
            /\ RowsFor(k) # {}
            /\ \A i \in RowsFor(k) :
                  /\ statistics[i].peak_viewers = MaxViewers(CallsFor(k[1], k[2], k[3]))
                  /\ statistics[i].total_views = SumViewers(CallsFor(k[1], k[2], k[3]))
                  /\ statistics[i].total_bytes = SumBytes(CallsFor(k[1], k[2], k[3]))

(* C10 witness: viewers 3, 7, 2 recorded for one key give peak 7, views 12 *)
C10_Witness ==
    \E k \in StatKeys :
        /\ k[2] # 0 /\ k[3] # 0
        /\ Len(CallsFor(k[1], k[2], k[3])) = 3
        /\ CallsFor(k[1], k[2], k[3])[1].viewers = 3
        /\ CallsFor(k[1], k[2], k[3])[2].viewers = 7
        /\ CallsFor(k[1], k[2], k[3])[3].viewers = 2
        /\ \E i \in RowsFor(k) :
              statistics[i].peak_viewers = 7 /\ statistics[i].total_views = 12

(* C11: the statistics table never holds two rows with the same             *)
(* (stat_date, user_id, stream_id) key, whatever arguments add_statistic    *)
(* was called with, a user_id or stream_id left at None included.           *)
C11_StatKeyUnique ==
    \A i, j \in 1..Len(statistics) :
        ( /\ statistics[i].stat_date = statistics[j].stat_date
          /\ statistics[i].user_id = statistics[j].user_id
          /\ statistics[i].stream_id = statistics[j].stream_id ) => i = j

(* C12: when no add_statistic call is in progress, every key with a         *)
(* subscriber and a stream that the threads recorded, concurrently or not,  *)
(* has exactly one row, and the row holds the sums of the views and bytes   *)
(* and the maximum of the viewers of all the calls made for the key.        *)
C12_NoLostStatUpdates ==
    (\A t \in Threads : pc[t] # "stat_sel") =>
        \A k \in StatKeys :
            (k[2] # 0 /\ k[3] # 0) =>
                /\ Cardinality(RowsFor(k)) = 1
                /\ \A i \in RowsFor(k) :
                      /\ statistics[i].total_views = SumViewers(CallsFor(k[1], k[2], k[3]))
                      /\ statistics[i].total_bytes = SumBytes(CallsFor(k[1], k[2], k[3]))
                      /\ statistics[i].peak_viewers = MaxViewers(CallsFor(k[1], k[2], k[3]))

-----------------------------------------------------------------------------
(* Playlist properties.  The document is read line by line, as an M3U       *)
(* player reads it.                                                         *)

Nth(S, k) == CHOOSE i \in S : Cardinality({j \in S : j < i}) = k - 1

(* The lines of a document: the pieces between its NEWLINEs *)
LinesOf(doc) ==
    LET ends == {i \in 1..Len(doc) : doc[i] = NEWLINE} \cup
                (IF doc # <<>> /\ doc[Len(doc)] # NEWLINE THEN {Len(doc) + 1} ELSE {})
    IN [k \in 1..Cardinality(ends) |->
          SubSeq(doc, (IF k = 1 THEN 0 ELSE Nth(ends, k - 1)) + 1, Nth(ends, k) - 1)]

UrlTokens == StreamUrls \cup {ProxyUrl(url) : url \in StreamUrls}

IsExtinf(l)  == Len(l) >= 1 /\ l[1] = "#EXTINF:-1 "
IsGroup(l)   == Len(l) >= 2 /\ l[1] = "#EXTINF:-1 " /\ l[2] = "group-title="
IsChannel(l) == Len(l) >= 2 /\ l[1] = "#EXTINF:-1 " /\ l[2] = "tvg-id="
IsUrl(l)     == Len(l) = 1 /\ l[1] \in UrlTokens
Quotes(l)    == Cardinality({i \in 1..Len(l) : l[i] = QUOTE})

(* The threads that have just got a playlist *)
Playlists == {t \in Threads : pc[t] = "done" /\ fr[t].op = "generate_m3u_playlist"}

ChannelLines(L) == {j \in 1..Len(L) : IsChannel(L[j])}
(* The group lines between the channel line of entry k and the one before *)
GroupsBefore(L, k) ==
    LET ch == ChannelLines(L)
        lo == IF k = 1 THEN 0 ELSE Nth(ch, k - 1)
        hi == Nth(ch, k)
    IN Cardinality({j \in 1..Len(L) : lo < j /\ j < hi /\ IsGroup(L[j])})

(* C13: a playlist has one channel line per stream of the query result, and *)
(* a group line stands before the channel line of an entry exactly when the *)
(* entry is the first one or its category differs from the category of the  *)
(* entry before it.                                                         *)
C13_GroupMarkerOnChange ==
    \A t \in Playlists :
        LET L    == LinesOf(ret[t].val)
            rows == fr[t].rows
        IN /\ Cardinality(ChannelLines(L)) = Len(rows)
           /\ \A k \in 1..Len(rows) :
                 GroupsBefore(L, k) =
                    IF k = 1 \/ rows[k].category_name # rows[k - 1].category_name
                    THEN 1 ELSE 0

(* C13, as the code does it: the category before the first entry is the    *)
(* empty string, so a group line stands before the channel line of an       *)
(* entry exactly when its category differs from the category of the entry   *)
(* before it, or it is the first entry and its category is not empty.       *)
C13_GroupMarkerOnChangeFromEmpty ==
    \A t \in Playlists :
        LET L    == LinesOf(ret[t].val)
            rows == fr[t].rows
        IN /\ Cardinality(ChannelLines(L)) = Len(rows)
           /\ \A k \in 1..Len(rows) :
                 GroupsBefore(L, k) =
                    IF rows[k].category_name #
                         (IF k = 1 THEN <<>> ELSE rows[k - 1].category_name)
                    THEN 1 ELSE 0

(* C13 witness: a playlist of three streams, the first two in one category  *)
(* and the third in another: one group line before the first, none before  *)
(* the second, one before the third.                                        *)
C13_Witness ==
    \E t \in Playlists :
        LET L    == LinesOf(ret[t].val)
            rows == fr[t].rows
        IN /\ Len(rows) = 3
           /\ rows[1].category_name # <<>>
           /\ rows[1].category_name = rows[2].category_name
           /\ rows[3].category_name # rows[2].category_name
           /\ GroupsBefore(L, 1) = 1 /\ GroupsBefore(L, 2) = 0 /\ GroupsBefore(L, 3) = 1

PlaylistContentOk(ss, u, doc) ==
    LET L == LinesOf(doc) IN
    /\ Len(L) >= 1 /\ L[1] = <<"#EXTM3U">>
    /\ Cardinality({j \in 1..Len(L) : IsExtinf(L[j]) /\ j < Len(L) /\ IsUrl(L[j + 1])})
         = Cardinality(Owned(ss, u))
    /\ \A j \in 1..Len(L) : IsExtinf(L[j]) => \E k \in (j + 1)..Len(L) : IsUrl(L[k])

(* C14: every generate_m3u_playlist call returns a document that starts     *)
(* with the #EXTM3U line, has as many #EXTINF lines immediately followed by *)
(* a URL line as the subscriber owns active live streams (none for other    *)
(* streams), and has a URL line after every #EXTINF line.                   *)
C14_PlaylistContent ==
    [][\A t \in Threads :
          (pc[t] = "idle" /\ pc'[t] = "done" /\ fr'[t].op = "generate_m3u_playlist")
             => PlaylistContentOk(streams, fr'[t].u, ret'[t].val)]_vars

WellFormedLine(l) ==
    \/ l = <<>>
    \/ l = <<"#EXTM3U">>
    \/ (Len(l) = 2 /\ l[1] \in {"# Generated: ", "# User ID: "})
    \/ l = <<"#EXTVLCOPT:network-caching=1000">>
    \/ (IsGroup(l) /\ Quotes(l) = 2)
    \/ (IsChannel(l) /\ Quotes(l) = 8)
    \/ IsUrl(l)

(* C15: whatever the display fields of the streams hold, every line of a    *)
(* playlist is a header line, a blank line, a group line with one quoted    *)
(* attribute, a channel line with four quoted attributes or a URL line: no  *)
(* field closes a quoted attribute early or adds a line.                    *)
C15_PlaylistEscaped ==
    \A t \in Playlists :
        LET L == LinesOf(ret[t].val) IN
        \A j \in 1..Len(L) : WellFormedLine(L[j])

(* C20: an add_live_stream call that has ended has returned the id of the   *)
(* stream it added; it has not raised.                                      *)
C20_AddLiveStreamReturnsId ==
    \A t \in Threads :
        (pc[t] = "done" /\ fr[t].op = "add_live_stream") => ret[t].kind = "stream_id"

-----------------------------------------------------------------------------
(* Protocol properties *)

(* The actions handle_api_request has a branch for *)
SupportedActions == {"get_live_categories", "get_live_streams",
                     "get_vod_categories", "get_vod_streams"}

(* C16: an authenticated player_api request whose action is given and is    *)
(* not one of the supported actions is answered with the negative envelope. *)
C16_UnknownActionNegative ==
    (SrvResponded /\ SrvCredentialsValid
       /\ srv.action # "" /\ srv.action \notin SupportedActions)
        => srv.response = NegEnvelope

(* C17: an authenticated player_api request with no action or a supported   *)
(* action is answered with the JSON object of that action, never with an    *)
(* error.                                                                   *)
C17_DeclaredActionsServed ==
    (SrvResponded /\ SrvCredentialsValid
       /\ (srv.action = "" \/ srv.action \in SupportedActions))
        => /\ "error" \notin DOMAIN srv.response
           /\ srv.response # NegEnvelope

-----------------------------------------------------------------------------
(* Subscriber properties *)

StoredHashes ==
    {users[i].password : i \in 1..Len(users)} \cup
    {XtreamUsers[i].password : i \in 1..Len(XtreamUsers)}

TextFields == {"username", "password", "message", "status", "exp_date", "created_at"}

InfoMasked(info) ==
    /\ info.password = MaskedPassword
    /\ \A f \in TextFields \cap DOMAIN info : info[f] \notin StoredHashes

(* C18: every user-info record, the store's and the server's, has the       *)
(* placeholder "********" as its password and holds no stored password hash *)
(* in any of its text fields.                                               *)
C18_HashNeverDisclosed ==
    /\ \A t \in Threads :
          (pc[t] = "done" /\ fr[t].op = "get_xtream_user_info"
              /\ ret[t].val # NegEnvelope) => InfoMasked(ret[t].val)
    /\ (SrvResponded /\ "user_info" \in DOMAIN srv.response
          /\ srv.response # NegEnvelope) => InfoMasked(srv.response.user_info)

(* C18 witness: the store has returned the user-info of a subscriber that   *)
(* create_user inserted and the server has answered a user-info request.    *)
C18_Witness ==
    /\ \E t \in Threads :
          /\ pc[t] = "done" /\ fr[t].op = "get_xtream_user_info"
          /\ fr[t].username = "nouser" /\ ret[t].val # NegEnvelope
          /\ ret[t].val.password = MaskedPassword
    /\ SrvResponded /\ srv.action = "" /\ srv.response # NegEnvelope
    /\ srv.response.user_info.password = MaskedPassword

InCreateUser(t) == pc[t] = "log_wait" /\ fr[t].op = "create_user"

(* C19: a create_user call that has inserted its row returns the new        *)
(* subscriber id (so that authenticate_user can be called after it).        *)
C19_CreateUserReturns ==
    \A t \in Threads :
        InCreateUser(t) ~> (pc[t] = "done" /\ ret[t].kind = "user_id")

-----------------------------------------------------------------------------
(* Subscriber uniqueness *)

UniqueSubscribers ==
    \A i, j \in 1..Len(users) :
       i # j => /\ users[i].username # users[j].username
                /\ users[i].api_key # None => users[i].api_key # users[j].api_key

(* A step in which thread t calls create_user *)
CreateUserCall(t) == pc[t] = "idle" /\ pc'[t] # "idle" /\ fr'[t].op = "create_user"

DuplicateCreateRefused ==
    \A t \in Threads :
       (/\ CreateUserCall(t)
        /\ \E i \in 1..Len(users) : users[i].username = fr'[t].username)
       => /\ pc'[t] = "done"
          /\ ret'[t].kind \in {"IntegrityError", "OperationalError"}
          /\ users' = users

(* C21: in every reachable state no two subscribers have the same username  *)
(* or the same API key, and a create_user call with a username in use       *)
(* raises and leaves the users table as it was.                             *)
C21_SubscribersUnique == []UniqueSubscribers /\ [][DuplicateCreateRefused]_vars

(* A create_user call was refused for its username while the table holds a  *)
(* subscriber create_user inserted, with its API key.                       *)
C21_Witness ==
    \E t \in Threads :
       /\ pc[t] = "done" /\ fr[t].op = "create_user"
       /\ ret[t].kind = "IntegrityError"
       /\ \E i \in 1..Len(users) : /\ users[i].api_key # None
                                    /\ users[i].username = fr[t].username

-----------------------------------------------------------------------------
(* Categories *)

(* C22: in every reachable state no two rows of categories have the same    *)
(* (category_name, category_type, user_id), rows without an owner included. *)
C22_CategoryTripleUnique ==
    \A i, j \in 1..Len(categories) :
       i # j => \/ categories[i].category_name # categories[j].category_name
                \/ categories[i].category_type # categories[j].category_type
                \/ categories[i].user_id # categories[j].user_id

(* The rows add_category inserted: every row after the default ones that is *)
(* not a default row.                                                       *)
AddedCategories ==
    {i \in 1..Len(categories) :
        \A k \in 1..Len(DefaultCategories) : categories[i] # DefaultCategories[k]}

(* C29: no two categories add_category created with the same                *)
(* (category_type, user_id) have the same sort_order, and each was given a  *)
(* sort_order above that of every row of its (category_type, user_id) that  *)
(* was there before it.                                                     *)
C29_SortOrderAllocated ==
    \A i \in AddedCategories :
       \A j \in 1..Len(categories) :
          (/\ j < i
           /\ categories[j].category_type = categories[i].category_type
           /\ categories[j].user_id = categories[i].user_id)
          => categories[j].sort_order < categories[i].sort_order

-----------------------------------------------------------------------------
(* The listings *)

Listings(op) == {t \in Threads : pc[t] = "done" /\ fr[t].op = op}

(* First code point of the names of categories_xtream *)
XtreamNameCode(name) ==
    CASE name = "Kids" -> 75 [] name = "News" -> 78 [] name = "Sports" -> 83
      [] OTHER -> 0

CategoriesListed(t) ==
    LET rows == ret[t].val IN
    /\ \A i \in 1..Len(rows) :
          /\ rows[i].is_active = 1
          /\ fr[t].u # 0 => rows[i].user_id = fr[t].u
    /\ \A i, j \in 1..Len(rows) : i < j => ~CategoryBefore(rows[j], rows[i])

StreamsListed(t) ==
    LET rows == ret[t].val IN
    /\ \A i \in 1..Len(rows) :
          /\ rows[i].is_active = 1
          /\ fr[t].u # 0 => rows[i].user_id = fr[t].u
    /\ \A i, j \in 1..Len(rows) :
          i < j => ~TextLess(rows[j].stream_name, rows[i].stream_name)

SrvCategoriesListed ==
    (srv.pc = "idle" /\ srv.action = "get_live_categories"
        /\ "categories" \in DOMAIN srv.response)
    => LET rows == srv.response.categories IN
       \A i, j \in 1..Len(rows) :
          i < j => XtreamNameCode(rows[i].category_name)
                      <= XtreamNameCode(rows[j].category_name)

ListingsOk ==
    /\ \A t \in Listings("get_categories") : CategoriesListed(t)
    /\ \A t \in Listings("get_live_streams") : StreamsListed(t)
    /\ SrvCategoriesListed

StoreUnchanged ==
    UNCHANGED <<users, sessions, statistics, logs, streams, categories, usersXtream>>

(* C30: a listing returns only active rows, only rows of the subscriber it  *)
(* is given, in the order of sort order then name, and the step that makes  *)
(* it changes no table.                                                     *)
C30_ListingProjections == []ListingsOk /\ [][StoreUnchanged]_vars

-----------------------------------------------------------------------------
(* Authentication side effects *)

(* The step in which an authenticate_user call of thread t ends *)
AuthReturns(t) ==
    fr[t].op = "authenticate_user" /\ pc[t] # "done" /\ pc'[t] = "done"

AuthAttemptLogged ==
    \A t \in Threads : AuthReturns(t) => Len(logs') = Len(logs) + 1

SuccessTouchesLogin ==
    \A t \in Threads :
       (pc[t] = "auth_sel" /\ fr[t].u # 0 /\ pc'[t] = "log_wait")
       => users'[fr[t].u].last_login = now

(* C23: every authenticate_user call, successful or not, has appended one   *)
(* row to logs when it ends, and a successful one has set last_login.       *)
C23_AuthAttemptLogged == [][AuthAttemptLogged /\ SuccessTouchesLogin]_vars

-----------------------------------------------------------------------------
(* Deactivated subscribers *)

Deactivated(tb, un) == \E i \in 1..Len(tb) : tb[i].username = un /\ tb[i].is_active = 0

StoreRefusesDeactivated ==
    \A t \in Threads :
       /\ (fr[t].op = "authenticate_user" /\ Deactivated(users, fr[t].username))
          => /\ fr[t].u = 0
             /\ pc[t] = "done" => ret[t].kind = "None"
       /\ (pc[t] = "done" /\ fr[t].op = "get_xtream_user_info"
              /\ Deactivated(users, fr[t].username))
          => ret[t].val = NegEnvelope

ServerRefusesDeactivated ==
    Deactivated(usersXtream, srv.username)
    => /\ srv.pc # "dispatch"
       /\ srv.user = 0
       /\ srv.response \in {NoResponse, NegEnvelope}

(* C24: for a subscriber whose is_active is 0, authenticate_user finds no   *)
(* row and returns None whatever the password, get_xtream_user_info returns *)
(* the negative record, and the server answers every request made in the    *)
(* subscriber's name with the negative record.                              *)
C24_DeactivatedRefused == StoreRefusesDeactivated /\ ServerRefusesDeactivated

(* A deactivated subscriber's correct credentials were refused by the store *)
(* and by the server.                                                       *)
C24_Witness ==
    /\ \E t \in Threads :
          /\ pc[t] = "done" /\ fr[t].op = "authenticate_user"
          /\ Deactivated(users, fr[t].username)
          /\ \E i \in 1..Len(users) : /\ users[i].username = fr[t].username
                                       /\ users[i].password = Sha256(fr[t].password)
          /\ ret[t].kind = "None"
    /\ Deactivated(usersXtream, srv.username)
    /\ \E i \in 1..Len(usersXtream) : /\ usersXtream[i].username = srv.username
                                       /\ usersXtream[i].password = Md5(srv.password)
    /\ srv.pc = "idle"
    /\ srv.response = NegEnvelope

-----------------------------------------------------------------------------
(* Sessions: the sweep, the activity report and the history *)

(* The row of ss' with the session id of s *)
Later(s) == CHOOSE s2 \in sessions' : s2.session_id = s.session_id

SameIds == SessionIds(sessions') = SessionIds(sessions)
           /\ Cardinality(sessions') = Cardinality(sessions)

(* The step in which thread t runs the statements of cleanup_old_data *)
SweepStep(t) ==
    pc[t] = "idle" /\ pc'[t] = "log_wait" /\ fr'[t].op = "cleanup_old_data"

SweepEffect ==
    \A t \in Threads :
       SweepStep(t) =>
          /\ SameIds
          /\ \A s \in sessions :
                Later(s) = IF s.last_active < fr'[t].cutoff
                           THEN [s EXCEPT !.is_active = 0] ELSE s

ReapedStaysInactive ==
    \A s \in sessions :
       s.is_active = 0 =>
          \A s2 \in sessions' : s2.session_id = s.session_id => s2.is_active = 0

(* C25: the sweep sets is_active to 0 in exactly the rows whose last_active *)
(* is before the cutoff and changes nothing else, each session is one row   *)
(* whatever runs beside the sweep, and no later step of any thread makes a  *)
(* swept session active again.                                              *)
C25_StaleSweep == [][SweepEffect /\ ReapedStaysInactive]_vars

(* A sweep has closed one session and left a newer one active *)
C25_Witness ==
    \E t \in Threads, s1, s2 \in sessions :
       /\ pc[t] = "log_wait" /\ fr[t].op = "cleanup_old_data"
       /\ s1.last_active < fr[t].cutoff /\ s1.is_active = 0
       /\ ~(s2.last_active < fr[t].cutoff) /\ s2.is_active = 1

(* The step in which an update_session call of thread t makes its UPDATE *)
ReportStep(t) ==
    /\ pc[t] = "idle" /\ pc'[t] = "done"
    /\ fr'[t].op = "update_session" /\ ret'[t].kind = "None"

(* C26: update_session adds its bytes to the session named if it is active  *)
(* and sets its last_active to the time of the call; every other row, and   *)
(* every row when the session named is inactive or absent, stays as it is.  *)
C26_ActivityReport ==
    [][\A t \in Threads :
          ReportStep(t) =>
             /\ SameIds
             /\ \A s \in sessions :
                   Later(s) = IF s.session_id = fr'[t].sid /\ s.is_active = 1
                              THEN [s EXCEPT !.bytes_sent = @ + fr'[t].bytes_sent,
                                             !.last_active = now]
                              ELSE s]_vars

(* Bytes were reported for an active session and are in its row *)
C26_Witness ==
    \E t \in Threads, s \in sessions :
       /\ pc[t] = "done" /\ fr[t].op = "update_session" /\ ret[t].kind = "None"
       /\ fr[t].sid = s.session_id /\ fr[t].bytes_sent = 1
       /\ s.is_active = 1 /\ s.bytes_sent = 1

(* C27: no step removes a row of active_sessions: every session id of a     *)
(* state is a session id of the next, so a closed session stays in the      *)
(* table.                                                                   *)
C27_SessionHistoryKept == [][SessionIds(sessions) \subseteq SessionIds(sessions')]_vars

(* A session the sweep closed is in the table *)
C27_Witness ==
    \E t \in Threads, s \in sessions :
       /\ pc[t] = "log_wait" /\ fr[t].op = "cleanup_old_data"
       /\ s.last_active < fr[t].cutoff
       /\ s.is_active = 0
       /\ Cardinality(sessions) = MaxSessions

-----------------------------------------------------------------------------
(* Errors inside the critical section *)

(* The exceptions a call raises inside its with block *)
StoreErrors == {"IntegrityError", "TypeError", "KeyError"}

(* C28: a call that raised inside its critical section no longer holds the  *)
(* lock, and no call fails because of what a failed call left behind: none  *)
(* raises "database is locked".                                             *)
C28_ErrorsNotFatal ==
    \A t \in Threads :
       pc[t] = "done" =>
          /\ ret[t].kind \in StoreErrors => lock[db[t]] # t
          /\ ret[t].kind # "OperationalError"

-----------------------------------------------------------------------------
(* The URL lines of the playlist *)

UrlLines(L) == {j \in 1..Len(L) : IsUrl(L[j])}

UrlLinesOk(rows, fmt, doc) ==
    LET L == LinesOf(doc)
        U == UrlLines(L)
    IN /\ Cardinality(U) = Len(rows)
       /\ \A k \in 1..Len(rows) :
             L[Nth(U, k)] = << IF fmt = "ts" THEN rows[k].proxy_url
                               ELSE rows[k].stream_url >>

(* C31: in every playlist generate_m3u_playlist returns, the URL line of    *)
(* the k-th stream is that stream's proxy_url when the format asked for is  *)
(* "ts" and its stream_url for any other format.                            *)
C31_PlaylistUrlSelection ==
    \A t \in Playlists : UrlLinesOk(fr[t].rows, fr[t].fmt, ret[t].val)

(* One subscriber's streams were listed both ways: as proxy URLs for "ts"   *)
(* and as origin URLs for "m3u8".                                           *)
C31_Witness ==
    \E t1, t2 \in Playlists :
       /\ fr[t1].fmt = "ts" /\ fr[t2].fmt = "m3u8"
       /\ Len(fr[t1].rows) >= 2 /\ Len(fr[t2].rows) >= 2
       /\ \E j \in 1..Len(LinesOf(ret[t1].val)) :
             LinesOf(ret[t1].val)[j] = <<fr[t1].rows[1].proxy_url>>
       /\ \E j \in 1..Len(LinesOf(ret[t2].val)) :
             LinesOf(ret[t2].val)[j] = <<fr[t2].rows[1].stream_url>>

-----------------------------------------------------------------------------
(* One store per process *)

Holders == {t \in Threads : db[t] # 0}

(* C32: the store is constructed at most once in a process, and every       *)
(* caller of get_db holds the same IPTVDatabase object, so the same lock,   *)
(* also when the first calls of several threads overlap.                    *)
C32_SingleStore ==
    /\ Cardinality(built) <= 1
    /\ \A t1, t2 \in Holders : db[t1] = db[t2]

-----------------------------------------------------------------------------
(* The store lock is not reentrant *)

(* Thread t is inside "with self.lock" and has called log_action, whose    *)
(* own "with self.lock" waits for the lock t holds.                         *)
WaitsForOwnLock(t) == pc[t] = "log_wait" /\ db[t] # 0 /\ lock[db[t]] = t

(* C33: no thread waits for the store lock while holding it (so that every  *)
(* writing call releases the lock and no other thread is blocked forever).  *)
C33_NoSelfWait == \A t \in Threads : ~WaitsForOwnLock(t)

-----------------------------------------------------------------------------
(* The cap of a subscriber *)

(* C34: every subscriber's max_connections is at least 1, and the cap       *)
(* check_user_connections returns for a subscriber is at least 1.           *)
C34_CapAtLeastOne ==
    /\ \A u \in UserIds : users[u].max_connections >= 1
    /\ \A t \in Threads : pc[t] = "checked" => fr[t].mc >= 1

-----------------------------------------------------------------------------
(* Session ids *)

SessionIdsUnique ==
    \A s1, s2 \in sessions : s1.session_id = s2.session_id => s1 = s2

(* A create_session step whose derived id is the id of a stored session *)
CollidingAdmission(t) ==
    /\ CreateSession(t)
    /\ ~leaked
    /\ \E ip \in ClientIps : SessionId(fr[t].u, now, ip) \in SessionIds(sessions)

(* C35: no two session rows have the same session id, and a create_session  *)
(* whose derived id is the id of a stored session leaves that session, and  *)
(* every other, as it was.                                                  *)
C35_SessionIdUnique ==
    /\ []SessionIdsUnique
    /\ [][\A t \in Threads : CollidingAdmission(t) => sessions' = sessions]_vars

(* A second admission of the same subscriber from the same address at the   *)
(* same time was refused, while the first session had already reported      *)
(* bytes.                                                                   *)
C35_Witness ==
    \E t \in Threads, s \in sessions :
       /\ pc[t] = "done" /\ ret[t].kind = "IntegrityError"
       /\ s.bytes_sent > 0 /\ s.is_active = 1
       /\ s.session_id = SessionId(s.user_id, now, s.client_ip)

-----------------------------------------------------------------------------
(* Failed authentication *)

(* No active subscriber of table tb has the name with the password hash h *)
NoMatch(tb, un, h) ==
    \A i \in 1..Len(tb) :
       ~(tb[i].username = un /\ tb[i].password = h /\ tb[i].is_active = 1)

SubscriberStateKept ==
    users' = users /\ sessions' = sessions /\ usersXtream' = usersXtream

(* The steps of an authenticate_user call that names no active subscriber   *)
(* with that password                                                       *)
StoreFailedAuthKeeps ==
    \A t \in Threads :
       (/\ AuthenticateUser(t) \/ AuthFinish(t)
        /\ NoMatch(users, fr'[t].username, Sha256(fr'[t].password)))
       => SubscriberStateKept

ServerFailedAuthKeeps ==
    (SrvAuthenticate /\ NoMatch(usersXtream, srv.username, Md5(srv.password)))
    => SubscriberStateKept /\ srv'.response = NegEnvelope

(* C36: an authentication that fails, for an unknown name, a wrong password *)
(* or a deactivated subscriber, changes no subscriber row (last_login       *)
(* included) and no session row, in the store and in the server.            *)
C36_FailedAuthChangesNothing ==
    [][StoreFailedAuthKeeps /\ ServerFailedAuthKeeps]_vars

(* One thread was refused for a wrong password of an active subscriber,     *)
(* another for the right password of a deactivated one, and the server      *)
(* refused a request.                                                       *)
C36_Witness ==
    /\ \E t1, t2 \in Threads :
          /\ pc[t1] = "done" /\ fr[t1].op = "authenticate_user"
          /\ ret[t1].kind = "None"
          /\ \E i \in 1..Len(users) : /\ users[i].username = fr[t1].username
                                       /\ users[i].is_active = 1
                                       /\ users[i].password # Sha256(fr[t1].password)
          /\ pc[t2] = "done" /\ fr[t2].op = "authenticate_user"
          /\ ret[t2].kind = "None"
          /\ \E i \in 1..Len(users) : /\ users[i].username = fr[t2].username
                                       /\ users[i].is_active = 0
                                       /\ users[i].password = Sha256(fr[t2].password)
    /\ srv.pc = "idle" /\ srv.response = NegEnvelope
    /\ NoMatch(usersXtream, srv.username, Md5(srv.password))

====
